---- MODULE Spec2Model ----
(***************************************************************************)
(* Korfbal Coach (src/src/App.tsx): the match-state reducer.               *)
(*                                                                         *)
(* The React component keeps one AppState object and replaces it through   *)
(* setState updaters.  The model keeps that object in the record `state`,  *)
(* the modal that is open over the match tab in `vakActionPopup`, and one  *)
(* history variable, `handmatig`, that records whether a manual score      *)
(* button was used since the scores were last zeroed.  Every action is one *)
(* UI callback or the timer callback, translated from its updater.         *)
(*                                                                         *)
(* Absent values: a missing player id is NoSpeler, a missing attack id is  *)
(* NoId (0), a missing endSeconden / pos is Absent (-1), a missing string  *)
(* field of a log event is "none".  uid() draws a fresh random id; it is   *)
(* modelled as the next ordinal of the collection the id is added to.      *)
(***************************************************************************)
EXTENDS Integers, Sequences, FiniteSets, TLC

VARIABLES state, vakActionPopup, handmatig

vars == <<state, vakActionPopup, handmatig>>

\* ----- bounds of the exploration -----------------------------------------
EarlyTicks == 1
LateTicks == 1
MaxBezit == 2
MaxLog == 1
MaxAttacks == 2
MaxScore == 1
MaxDuur == 2
MaxVoorsprong == 2
MaxWisselLog == 1
MaxPos == 2
GelopenTicks == 65
MaxAutoLog == 3
MaxAutoAttacks == 4
MaxLogboek == 2
MaxStoringen == 2

\* ----- program constants --------------------------------------------------
SecondenPerMinuut == 60
MinHalfMinuten == 1
HalfMinutenLimiet == 60
VakGrootte == 4
AutoWisselDrempel == 2

NoSpeler == "none"
NoId == 0
Absent == -1
Geen == "none"
NoPopup == "dicht"
TEGENSTANDER_ID == "__tegenstander__"

AlleSpelers == {"p1", "p2"}
VakSides == {"aanvallend", "verdedigend"}
Acties == {"Schot"}
Uitkomsten == {"Raak", "Mis", "Korf", "Verdedigd"}
AlleActies == {"Schot", "Doorloop", "Vrijebal", "Strafworp"}

Max(a, b) == IF a >= b THEN a ELSE b
Min(a, b) == IF a <= b THEN a ELSE b

\* Math.ceil(t / 60) for t >= 0
CeilMinuten(t) == (t + SecondenPerMinuut - 1) \div SecondenPerMinuut

DEFAULT_STATE ==
  [ spelers |-> {},
    aanval |-> <<NoSpeler, NoSpeler, NoSpeler, NoSpeler>>,
    verdediging |-> <<NoSpeler, NoSpeler, NoSpeler, NoSpeler>>,
    scoreThuis |-> 0,
    scoreUit |-> 0,
    tijdSeconden |-> 0,
    klokLoopt |-> FALSE,
    halfMinuten |-> 25,
    log |-> <<>>,
    possessionOwner |-> Geen,
    possessionThuisSeconden |-> 0,
    possessionUitSeconden |-> 0,
    autoVakWisselNa2 |-> FALSE,
    goalsSinceLastSwitch |-> 0,
    aanvalLinks |-> TRUE,
    currentHalf |-> 1,
    activeVak |-> "aanvallend",
    attacks |-> <<>>,
    currentAttackId |-> NoId,
    matchEnded |-> FALSE ]

\* attacks.findIndex((a) => a.id === id): 0 when there is none
FindAttack(attacks, id) ==
  IF \E i \in 1..Len(attacks) : attacks[i].id = id
    THEN CHOOSE i \in 1..Len(attacks) :
           /\ attacks[i].id = id
           /\ \A j \in 1..(i - 1) : attacks[j].id # id
    ELSE 0

\* the "close the running attack" block shared by startAttackForVak, the
\* timer and eindeWedstrijd
CloseCurrent(attacks, currentId, now) ==
  LET idx == FindAttack(attacks, currentId)
  IN IF currentId # NoId /\ idx > 0 /\ attacks[idx].endSeconden = Absent
       THEN [attacks EXCEPT ![idx].endSeconden = now]
       ELSE attacks

\* mutant: every attack is a home attack
TeamVanVak_Thuis(vak) == "thuis"

TeamVanVak(vak) == IF vak = "aanvallend" THEN "thuis" ELSE "uit"

\* mutant: the new attack is numbered from 0
startAttackForVak_IndexZero(prev, vak) ==
  LET now == prev.tijdSeconden
      attacks == CloseCurrent(prev.attacks, prev.currentAttackId, now)
      newId == Len(attacks) + 1
      newAttack == [ id |-> newId,
                     index |-> Len(attacks),
                     team |-> TeamVanVak(vak),
                     vak |-> vak,
                     startSeconden |-> now,
                     endSeconden |-> Absent ]
  IN [prev EXCEPT !.activeVak = vak,
                  !.attacks = Append(attacks, newAttack),
                  !.currentAttackId = newId]

\* mutant: the running attack is left open
startAttackForVak_NoClose(prev, vak) ==
  LET newId == Len(prev.attacks) + 1
      newAttack == [ id |-> newId,
                     index |-> Len(prev.attacks) + 1,
                     team |-> IF vak = "aanvallend" THEN "thuis" ELSE "uit",
                     vak |-> vak,
                     startSeconden |-> prev.tijdSeconden,
                     endSeconden |-> Absent ]
  IN [prev EXCEPT !.activeVak = vak,
                  !.attacks = Append(prev.attacks, newAttack),
                  !.currentAttackId = newId]

\* mutant: the new attack is stamped with the start of the match
startAttackForVak_Nul(prev, vak) ==
  LET attacks == CloseCurrent(prev.attacks, prev.currentAttackId, prev.tijdSeconden)
      newId == Len(attacks) + 1
      newAttack == [ id |-> newId,
                     index |-> Len(attacks) + 1,
                     team |-> TeamVanVak(vak),
                     vak |-> vak,
                     startSeconden |-> 0,
                     endSeconden |-> Absent ]
  IN [prev EXCEPT !.activeVak = vak,
                  !.attacks = Append(attacks, newAttack),
                  !.currentAttackId = newId]

startAttackForVak(prev, vak) ==
  LET now == prev.tijdSeconden
      team == TeamVanVak(vak)
      attacks == CloseCurrent(prev.attacks, prev.currentAttackId, now)
      newId == Len(attacks) + 1
      newAttack == [ id |-> newId,
                     index |-> Len(attacks) + 1,
                     team |-> team,
                     vak |-> vak,
                     startSeconden |-> now,
                     endSeconden |-> Absent ]
  IN [prev EXCEPT !.activeVak = vak,
                  !.attacks = Append(attacks, newAttack),
                  !.currentAttackId = newId]

\* mutant: the newest attack, open or not
getCurrentAttackInfo_Laatste(s) ==
  IF Len(s.attacks) = 0
    THEN [attackId |-> NoId, attackIndex |-> Absent]
    ELSE [attackId |-> s.attacks[Len(s.attacks)].id,
          attackIndex |-> s.attacks[Len(s.attacks)].index]

getCurrentAttackInfo(s) ==
  LET idx == FindAttack(s.attacks, s.currentAttackId)
  IN IF s.currentAttackId = NoId \/ idx = 0
       THEN [attackId |-> NoId, attackIndex |-> Absent]
       ELSE [attackId |-> s.attacks[idx].id, attackIndex |-> s.attacks[idx].index]

HalfTotal(s) == s.halfMinuten * SecondenPerMinuut

Resterend(s) == Max(HalfTotal(s) - s.tijdSeconden, 0)

Minuut(s) == Max(1, CeilMinuten(s.tijdSeconden))

\* the remaining time the match tab shows: counted within the current half
ResterendGetoond(s) ==
  LET halfTotal == HalfTotal(s)
      halfStart == IF s.currentHalf = 1 THEN 0 ELSE halfTotal
      halfElapsed == Max(0, Min(halfTotal, s.tijdSeconden - halfStart))
  IN Max(halfTotal - halfElapsed, 0)

\* ----- the timer callback -------------------------------------------------
\* mutant: the tick that ends the half stops the clock and leaves the attack
TickState_NoSluit(prev) ==
  LET currentHalfEnd == prev.currentHalf * HalfTotal(prev)
      nextTime == Min(prev.tijdSeconden + 1, currentHalfEnd)
      u1 == [prev EXCEPT !.tijdSeconden = nextTime]
      u2 == IF prev.possessionOwner = "thuis"
              THEN [u1 EXCEPT !.possessionThuisSeconden = prev.possessionThuisSeconden + 1]
              ELSE IF prev.possessionOwner = "uit"
                THEN [u1 EXCEPT !.possessionUitSeconden = prev.possessionUitSeconden + 1]
                ELSE u1
  IN IF nextTime >= currentHalfEnd THEN [u2 EXCEPT !.klokLoopt = FALSE] ELSE u2

\* mutant: the next second is not capped at the end of the half
TickState_NoCap(prev) ==
  LET currentHalfEnd == prev.currentHalf * HalfTotal(prev)
      nextTime == prev.tijdSeconden + 1
      u1 == [prev EXCEPT !.tijdSeconden = nextTime]
  IN IF nextTime >= currentHalfEnd THEN [u1 EXCEPT !.klokLoopt = FALSE] ELSE u1

\* mutant: the tick at the end of the half caps the time and keeps the clock
\* running
TickState_Loopt(prev) ==
  LET currentHalfEnd == prev.currentHalf * HalfTotal(prev)
      nextTime == Min(prev.tijdSeconden + 1, currentHalfEnd)
      u1 == [prev EXCEPT !.tijdSeconden = nextTime]
  IN IF prev.possessionOwner = "thuis"
       THEN [u1 EXCEPT !.possessionThuisSeconden = prev.possessionThuisSeconden + 1]
       ELSE IF prev.possessionOwner = "uit"
         THEN [u1 EXCEPT !.possessionUitSeconden = prev.possessionUitSeconden + 1]
         ELSE u1

TickState(prev) ==
  LET currentHalfEnd == prev.currentHalf * HalfTotal(prev)
      nextTime == Min(prev.tijdSeconden + 1, currentHalfEnd)
      u1 == [prev EXCEPT !.tijdSeconden = nextTime]
      u2 == IF prev.possessionOwner = "thuis"
              THEN [u1 EXCEPT !.possessionThuisSeconden = prev.possessionThuisSeconden + 1]
              ELSE IF prev.possessionOwner = "uit"
                THEN [u1 EXCEPT !.possessionUitSeconden = prev.possessionUitSeconden + 1]
                ELSE u1
  IN IF nextTime >= currentHalfEnd
       THEN IF prev.currentAttackId # NoId
              THEN [u2 EXCEPT !.klokLoopt = FALSE,
                              !.attacks = CloseCurrent(prev.attacks, prev.currentAttackId, nextTime),
                              !.currentAttackId = NoId]
              ELSE [u2 EXCEPT !.klokLoopt = FALSE]
       ELSE u2

\* mutant: the interval outlives the stop of the clock
Tick_Orphan ==
  /\ state' = TickState(state)
  /\ UNCHANGED <<vakActionPopup, handmatig>>

\* the interval exists only while klokLoopt holds: the effect returns before
\* setInterval when the clock is stopped, and its cleanup clears the interval
\* when klokLoopt changes
Tick ==
  /\ state.klokLoopt
  /\ state' = TickState(state)
  /\ UNCHANGED <<vakActionPopup, handmatig>>

\* ----- clock buttons ------------------------------------------------------
toggleKlok(aan) ==
  /\ vakActionPopup = NoPopup
  /\ state.klokLoopt = ~aan
  /\ state' = [state EXCEPT !.klokLoopt = aan]
  /\ UNCHANGED <<vakActionPopup, handmatig>>

StartKlok == toggleKlok(TRUE)

PauzeKlok == toggleKlok(FALSE)

\* mutant: the reset also forgets the running attack
resetKlokState_Aanval(s) ==
  [s EXCEPT !.tijdSeconden = 0,
            !.klokLoopt = FALSE,
            !.possessionOwner = Geen,
            !.possessionThuisSeconden = 0,
            !.possessionUitSeconden = 0,
            !.currentHalf = 1,
            !.aanvalLinks = DEFAULT_STATE.aanvalLinks,
            !.currentAttackId = NoId]

resetKlokState(s) ==
  [s EXCEPT !.tijdSeconden = 0,
            !.klokLoopt = FALSE,
            !.possessionOwner = Geen,
            !.possessionThuisSeconden = 0,
            !.possessionUitSeconden = 0,
            !.currentHalf = 1,
            !.aanvalLinks = DEFAULT_STATE.aanvalLinks]

resetKlok ==
  /\ vakActionPopup = NoPopup
  /\ state' = resetKlokState(state)
  /\ UNCHANGED <<vakActionPopup, handmatig>>

\* mutant: the clock jumps to the end of the first half
TweedeHelft_Terug ==
  /\ vakActionPopup = NoPopup
  /\ state.currentHalf # 2
  /\ state' = [state EXCEPT !.currentHalf = 2,
                            !.tijdSeconden = HalfTotal(state),
                            !.klokLoopt = FALSE,
                            !.aanvalLinks = ~state.aanvalLinks]
  /\ UNCHANGED <<vakActionPopup, handmatig>>

TweedeHelft ==
  /\ vakActionPopup = NoPopup
  /\ state.currentHalf # 2
  /\ state' = [state EXCEPT !.currentHalf = 2,
                            !.tijdSeconden = Max(state.tijdSeconden, HalfTotal(state)),
                            !.klokLoopt = FALSE,
                            !.aanvalLinks = ~state.aanvalLinks]
  /\ UNCHANGED <<vakActionPopup, handmatig>>

\* ----- settings tab ---------------------------------------------------------
\* the -/+ buttons of "Wedstrijdduur per helft" call setHalfMinuten with the
\* clamped value; neither button is disabled while the clock runs
setHalfMinuten(value) ==
  /\ vakActionPopup = NoPopup
  /\ state' = [state EXCEPT !.halfMinuten = value]
  /\ UNCHANGED <<vakActionPopup, handmatig>>

HalfMinutenMin == setHalfMinuten(Max(MinHalfMinuten, state.halfMinuten - 1))

HalfMinutenPlus == setHalfMinuten(Min(HalfMinutenLimiet, state.halfMinuten + 1))

setAutoVakWisselNa2(value) ==
  /\ vakActionPopup = NoPopup
  /\ state' = [state EXCEPT !.autoVakWisselNa2 = value]
  /\ UNCHANGED <<vakActionPopup, handmatig>>

ToggleAutoVakWissel == setAutoVakWisselNa2(~state.autoVakWisselNa2)

\* mutant: the defenders are copied and the attackers are lost
wisselVakkenState_Kopie(s) ==
  [s EXCEPT !.aanval = s.verdediging,
            !.goalsSinceLastSwitch = 0]

wisselVakkenState(s) ==
  [s EXCEPT !.aanval = s.verdediging,
            !.verdediging = s.aanval,
            !.goalsSinceLastSwitch = 0]

wisselVakken ==
  /\ vakActionPopup = NoPopup
  /\ state' = wisselVakkenState(state)
  /\ UNCHANGED <<vakActionPopup, handmatig>>

\* ----- event log ------------------------------------------------------------
\* one LogEvent; fields the code leaves out are Geen / NoSpeler / Absent / NoId
LogRecord(id, s, vak, soort, reden, spelerId, pos, team, actie, resultaat, info) ==
  [ id |-> id,
    tijdSeconden |-> s.tijdSeconden,
    vak |-> vak,
    soort |-> soort,
    reden |-> reden,
    spelerId |-> spelerId,
    resterendSeconden |-> Resterend(s),
    wedstrijdMinuut |-> Minuut(s),
    pos |-> pos,
    team |-> team,
    actie |-> actie,
    resultaat |-> resultaat,
    attackId |-> info.attackId,
    attackIndex |-> info.attackIndex ]

NoAttackInfo == [attackId |-> NoId, attackIndex |-> Absent]

\* mutant: a shot that hits the korf counts as a goal
isThuisGoal_Korf(soort, vak, reden) ==
  /\ soort = "Kans"
  /\ vak = "aanvallend"
  /\ reden \in {"Gescoord", "Doelpunt", "Korf"}

isThuisGoal(soort, vak, reden) ==
  /\ soort = "Kans"
  /\ vak = "aanvallend"
  /\ reden \in {"Gescoord", "Doelpunt"}

isUitGoal(soort, vak, reden) ==
  /\ soort = "Gemis"
  /\ vak = "verdedigend"
  /\ reden \in {"Doorgelaten", "Doelpunt"}

\* mutant: the ball stays on the side that scored
AndereVak_Zelfde(vak) == vak

AndereVak(vak) == IF vak = "aanvallend" THEN "verdedigend" ELSE "aanvallend"

\* mutant: the counter is reset at the second goal but the zones stay
AutoWissel_NoSwap(s, next, goalScored) ==
  IF goalScored /\ s.autoVakWisselNa2
    THEN LET goalsTotaal == s.goalsSinceLastSwitch + 1
         IN IF goalsTotaal >= AutoWisselDrempel
              THEN [next EXCEPT !.goalsSinceLastSwitch = 0]
              ELSE [next EXCEPT !.goalsSinceLastSwitch = goalsTotaal]
    ELSE next

\* the auto-swap block of logEvent, applied to `next` with the counters of `s`
AutoWissel(s, next, goalScored) ==
  IF goalScored /\ s.autoVakWisselNa2
    THEN LET goalsTotaal == s.goalsSinceLastSwitch + 1
         IN IF goalsTotaal >= AutoWisselDrempel
              THEN [next EXCEPT !.aanval = next.verdediging,
                                !.verdediging = next.aanval,
                                !.goalsSinceLastSwitch = 0]
              ELSE [next EXCEPT !.goalsSinceLastSwitch = goalsTotaal]
    ELSE next

\* mutant: the new event replaces the log
logEvent_Overwrite(s, vak, soort, reden, spelerId, actie, resultaat) ==
  LET e == LogRecord(Len(s.log) + 1, s, vak, soort, reden, spelerId, Absent,
                     TeamVanVak(vak), actie, resultaat, getCurrentAttackInfo(s))
      n0 == [s EXCEPT !.log = <<e>>]
      thuisGoal == isThuisGoal(soort, vak, reden)
      uitGoal == isUitGoal(soort, vak, reden)
      n1 == IF thuisGoal THEN [n0 EXCEPT !.scoreThuis = s.scoreThuis + 1] ELSE n0
      n2 == IF uitGoal THEN [n1 EXCEPT !.scoreUit = s.scoreUit + 1] ELSE n1
      goalScored == thuisGoal \/ uitGoal
      n3 == AutoWissel(s, n2, goalScored)
  IN IF goalScored
       THEN startAttackForVak(n3, AndereVak(s.activeVak))
       ELSE n3

logEvent(s, vak, soort, reden, spelerId, actie, resultaat) ==
  LET e == LogRecord(Len(s.log) + 1, s, vak, soort, reden, spelerId, Absent,
                     TeamVanVak(vak), actie, resultaat, getCurrentAttackInfo(s))
      n0 == [s EXCEPT !.log = <<e>> \o s.log]
      thuisGoal == isThuisGoal(soort, vak, reden)
      uitGoal == isUitGoal(soort, vak, reden)
      n1 == IF thuisGoal THEN [n0 EXCEPT !.scoreThuis = s.scoreThuis + 1] ELSE n0
      n2 == IF uitGoal THEN [n1 EXCEPT !.scoreUit = s.scoreUit + 1] ELSE n1
      goalScored == thuisGoal \/ uitGoal
      n3 == AutoWissel(s, n2, goalScored)
  IN IF goalScored
       THEN startAttackForVak(n3, AndereVak(s.activeVak))
       ELSE n3

\* (zone, outcome) -> reden, as in handleVakActieLog
\* mutant: a goal against is logged as a goal
RedenVoor_Gescoord(vak, uitkomst) ==
  IF uitkomst = "Raak" THEN "Gescoord"
    ELSE IF uitkomst = "Korf" THEN "Korf"
    ELSE IF uitkomst = "Verdedigd" THEN "Verdedigd"
    ELSE "Gemist Schot"

RedenVoor(vak, uitkomst) ==
  IF uitkomst = "Raak"
    THEN (IF vak = "aanvallend" THEN "Gescoord" ELSE "Doorgelaten")
    ELSE IF uitkomst = "Korf" THEN "Korf"
    ELSE IF uitkomst = "Verdedigd" THEN "Verdedigd"
    ELSE "Gemist Schot"

SoortVoor(vak) == IF vak = "aanvallend" THEN "Kans" ELSE "Gemis"

handleVakActieLogState(s, vak, actie, uitkomst, spelerId) ==
  logEvent(s, vak, SoortVoor(vak), RedenVoor(vak, uitkomst), spelerId, actie, uitkomst)

\* mutant: the steal keeps the play in the defending zone
logStealState_Verdedigend(s, spelerId) ==
  LET e == LogRecord(Len(s.log) + 1, s, "verdedigend", "Balbezit", "Schot afgevangen",
                     spelerId, Absent, "thuis", Geen, Geen, getCurrentAttackInfo(s))
      next == [s EXCEPT !.log = <<e>> \o s.log, !.possessionOwner = "thuis"]
  IN startAttackForVak(next, "verdedigend")

logStealState(s, spelerId) ==
  LET e == LogRecord(Len(s.log) + 1, s, "verdedigend", "Balbezit", "Schot afgevangen",
                     spelerId, Absent, "thuis", Geen, Geen, getCurrentAttackInfo(s))
      next == [s EXCEPT !.log = <<e>> \o s.log, !.possessionOwner = "thuis"]
  IN startAttackForVak(next, "aanvallend")

logStealAgainstUsState(s, spelerId) ==
  LET e == LogRecord(Len(s.log) + 1, s, "aanvallend", "Balbezit", "Schot afgevangen",
                     spelerId, Absent, "uit", Geen, Geen, getCurrentAttackInfo(s))
      next == [s EXCEPT !.log = <<e>> \o s.log]
  IN startAttackForVak(next, "verdedigend")

\* ----- match tab --------------------------------------------------------------
wedstrijdGestart(s) ==
  \/ s.tijdSeconden > 0
  \/ s.currentHalf = 2
  \/ Len(s.log) > 0
  \/ Len(s.attacks) > 0

\* the players the modal offers: the occupants of the popup's zone that are
\* still in the roster
SpelersInVak(s, vak) ==
  LET arr == IF vak = "aanvallend" THEN s.aanval ELSE s.verdediging
  IN {arr[i] : i \in 1..VakGrootte} \cap s.spelers

\* mutant: every tap opens an attack
handleVakClick_Altijd(vak) ==
  /\ vakActionPopup = NoPopup
  /\ wedstrijdGestart(state)
  /\ state' = startAttackForVak(state, vak)
  /\ vakActionPopup' = vak
  /\ UNCHANGED handmatig

handleVakClick(vak) ==
  /\ vakActionPopup = NoPopup
  /\ wedstrijdGestart(state)
  /\ state' = IF state.activeVak # vak \/ state.currentAttackId = NoId
                THEN startAttackForVak(state, vak)
                ELSE state
  /\ vakActionPopup' = vak
  /\ UNCHANGED handmatig

PopupSluiten ==
  /\ vakActionPopup # NoPopup
  /\ vakActionPopup' = NoPopup
  /\ UNCHANGED <<state, handmatig>>

handleVakActieLog(actie, uitkomst, spelerId) ==
  /\ vakActionPopup # NoPopup
  /\ spelerId \in SpelersInVak(state, vakActionPopup) \cup {NoSpeler}
  /\ state' = handleVakActieLogState(state, vakActionPopup, actie, uitkomst, spelerId)
  /\ vakActionPopup' = NoPopup
  /\ UNCHANGED handmatig

\* logEvent builds the event from `state` of the render the handler belongs to
\* (lines 582-604) and only then queues the updater that prepends it to `s`
\* (606-653); `gezien` is that rendered state, `s` the state the updater gets
logEventGezien(gezien, s, vak, soort, reden, spelerId, actie, resultaat) ==
  LET e == LogRecord(Len(s.log) + 1, gezien, vak, soort, reden, spelerId, Absent,
                     TeamVanVak(vak), actie, resultaat, getCurrentAttackInfo(gezien))
      n0 == [s EXCEPT !.log = <<e>> \o s.log]
      thuisGoal == isThuisGoal(soort, vak, reden)
      uitGoal == isUitGoal(soort, vak, reden)
      n1 == IF thuisGoal THEN [n0 EXCEPT !.scoreThuis = s.scoreThuis + 1] ELSE n0
      n2 == IF uitGoal THEN [n1 EXCEPT !.scoreUit = s.scoreUit + 1] ELSE n1
      goalScored == thuisGoal \/ uitGoal
      n3 == AutoWissel(s, n2, goalScored)
  IN IF goalScored
       THEN startAttackForVak(n3, AndereVak(s.activeVak))
       ELSE n3

\* the outcome button is pressed after the interval callback queued its update
\* and before React rendered it: the handler still belongs to the render of
\* `state`, and its updater runs after the timer's in the same queue
handleVakActieLogNaTick(actie, uitkomst, spelerId) ==
  /\ vakActionPopup # NoPopup
  /\ state.klokLoopt
  /\ spelerId \in SpelersInVak(state, vakActionPopup) \cup {NoSpeler}
  /\ state' = logEventGezien(state, TickState(state), vakActionPopup,
                             SoortVoor(vakActionPopup),
                             RedenVoor(vakActionPopup, uitkomst),
                             spelerId, actie, uitkomst)
  /\ vakActionPopup' = NoPopup
  /\ UNCHANGED handmatig

\* the steal button in the same situation: logSteal and logStealAgainstUs build
\* the event inside the updater, from the state the updater gets
onStealNaTick(spelerId) ==
  /\ vakActionPopup # NoPopup
  /\ state.klokLoopt
  /\ spelerId \in SpelersInVak(state, vakActionPopup) \cup {NoSpeler}
  /\ state' = IF vakActionPopup = "verdedigend"
                THEN logStealState(TickState(state), spelerId)
                ELSE logStealAgainstUsState(TickState(state), spelerId)
  /\ vakActionPopup' = NoPopup
  /\ UNCHANGED handmatig

onSteal(spelerId) ==
  /\ vakActionPopup # NoPopup
  /\ spelerId \in SpelersInVak(state, vakActionPopup) \cup {NoSpeler}
  /\ state' = IF vakActionPopup = "verdedigend"
                THEN logStealState(state, spelerId)
                ELSE logStealAgainstUsState(state, spelerId)
  /\ vakActionPopup' = NoPopup
  /\ UNCHANGED handmatig

\* the four manual score buttons
ScoreThuisMin ==
  /\ vakActionPopup = NoPopup
  /\ wedstrijdGestart(state)
  /\ state' = [state EXCEPT !.scoreThuis = Max(0, state.scoreThuis - 1)]
  /\ handmatig' = TRUE
  /\ UNCHANGED vakActionPopup

ScoreThuisPlus ==
  /\ vakActionPopup = NoPopup
  /\ wedstrijdGestart(state)
  /\ state' = [state EXCEPT !.scoreThuis = state.scoreThuis + 1]
  /\ handmatig' = TRUE
  /\ UNCHANGED vakActionPopup

ScoreUitMin ==
  /\ vakActionPopup = NoPopup
  /\ wedstrijdGestart(state)
  /\ state' = [state EXCEPT !.scoreUit = Max(0, state.scoreUit - 1)]
  /\ handmatig' = TRUE
  /\ UNCHANGED vakActionPopup

ScoreUitPlus ==
  /\ vakActionPopup = NoPopup
  /\ wedstrijdGestart(state)
  /\ state' = [state EXCEPT !.scoreUit = state.scoreUit + 1]
  /\ handmatig' = TRUE
  /\ UNCHANGED vakActionPopup

eindeWedstrijd ==
  /\ vakActionPopup = NoPopup
  /\ state' = [state EXCEPT
                 !.klokLoopt = FALSE,
                 !.matchEnded = TRUE,
                 !.attacks = CloseCurrent(state.attacks, state.currentAttackId,
                                          state.tijdSeconden),
                 !.currentAttackId = NoId]
  /\ UNCHANGED <<vakActionPopup, handmatig>>

\* mutant: the scores survive a clear
clearWedstrijd_KeepScore ==
  /\ vakActionPopup = NoPopup
  /\ state' = [state EXCEPT
                 !.tijdSeconden = 0,
                 !.klokLoopt = FALSE,
                 !.currentHalf = 1,
                 !.possessionOwner = Geen,
                 !.possessionThuisSeconden = 0,
                 !.possessionUitSeconden = 0,
                 !.log = <<>>,
                 !.attacks = <<>>,
                 !.currentAttackId = NoId,
                 !.goalsSinceLastSwitch = 0,
                 !.aanvalLinks = DEFAULT_STATE.aanvalLinks,
                 !.activeVak = "aanvallend"]
  /\ handmatig' = FALSE
  /\ UNCHANGED vakActionPopup

clearWedstrijd ==
  /\ vakActionPopup = NoPopup
  /\ state' = [state EXCEPT
                 !.scoreThuis = 0,
                 !.scoreUit = 0,
                 !.tijdSeconden = 0,
                 !.klokLoopt = FALSE,
                 !.currentHalf = 1,
                 !.possessionOwner = Geen,
                 !.possessionThuisSeconden = 0,
                 !.possessionUitSeconden = 0,
                 !.log = <<>>,
                 !.attacks = <<>>,
                 !.currentAttackId = NoId,
                 !.goalsSinceLastSwitch = 0,
                 !.aanvalLinks = DEFAULT_STATE.aanvalLinks,
                 !.activeVak = "aanvallend"]
  /\ handmatig' = FALSE
  /\ UNCHANGED vakActionPopup

resetAlles ==
  /\ vakActionPopup = NoPopup
  /\ state' = DEFAULT_STATE
  /\ handmatig' = FALSE
  /\ UNCHANGED vakActionPopup


\* ----- line-up ---------------------------------------------------------------
toegewezenIds(s) ==
  ({s.aanval[i] : i \in 1..VakGrootte} \cup {s.verdediging[i] : i \in 1..VakGrootte})
    \ {NoSpeler}

\* mutant: every player of the roster is a candidate
bank_Alle(s) == s.spelers

bank(s) == s.spelers \ toegewezenIds(s)

\* one 'Wissel' LogEvent of setVakPos; it carries no attack
WisselRecord(id, s, vak, reden, spelerId, pos) ==
  LogRecord(id, s, vak, "Wissel", reden, spelerId, pos + 1, TeamVanVak(vak),
            Geen, Geen, NoAttackInfo)

\* mutant: the event carries the 0-based slot index
setVakPosState_PosZero(s, vak, pos, spelerId, logWissel) ==
  LET old == IF vak = "aanvallend" THEN s.aanval ELSE s.verdediging
      prevId == old[pos + 1]
      arr == [old EXCEPT ![pos + 1] = spelerId]
      uit == IF logWissel /\ prevId # NoSpeler /\ prevId # spelerId
               THEN <<LogRecord(Len(s.log) + 1, s, vak, "Wissel", "Wissel uit", prevId,
                                pos, TeamVanVak(vak), Geen, Geen, NoAttackInfo)>>
               ELSE <<>>
      in == IF logWissel /\ spelerId # NoSpeler /\ prevId # spelerId
              THEN <<LogRecord(Len(s.log) + Len(uit) + 1, s, vak, "Wissel", "Wissel in",
                               spelerId, pos, TeamVanVak(vak), Geen, Geen, NoAttackInfo)>>
              ELSE <<>>
      next == IF vak = "aanvallend" THEN [s EXCEPT !.aanval = arr]
                                    ELSE [s EXCEPT !.verdediging = arr]
  IN [next EXCEPT !.log = uit \o in \o s.log]

\* pos is the 0-based slot index of the code; the tuples are 1-based
setVakPosState(s, vak, pos, spelerId, logWissel) ==
  LET old == IF vak = "aanvallend" THEN s.aanval ELSE s.verdediging
      prevId == old[pos + 1]
      arr == [old EXCEPT ![pos + 1] = spelerId]
      uit == IF logWissel /\ prevId # NoSpeler /\ prevId # spelerId
               THEN <<WisselRecord(Len(s.log) + 1, s, vak, "Wissel uit", prevId, pos)>>
               ELSE <<>>
      in == IF logWissel /\ spelerId # NoSpeler /\ prevId # spelerId
              THEN <<WisselRecord(Len(s.log) + Len(uit) + 1, s, vak, "Wissel in",
                                  spelerId, pos)>>
              ELSE <<>>
      next == IF vak = "aanvallend" THEN [s EXCEPT !.aanval = arr]
                                    ELSE [s EXCEPT !.verdediging = arr]
  IN [next EXCEPT !.log = uit \o in \o s.log]

\* the "Wissel" menu of a player row on the match tab: "Leeg maken" or one of
\* the bank players; the row is not clickable before the match has started
WisselKnop(vak, pos, spelerId) ==
  /\ vakActionPopup = NoPopup
  /\ wedstrijdGestart(state)
  /\ spelerId \in bank(state) \cup {NoSpeler}
  /\ state' = setVakPosState(state, vak, pos, spelerId, TRUE)
  /\ UNCHANGED <<vakActionPopup, handmatig>>

\* the select of a slot on the settings tab: empty, or a player that is in no
\* slot; onChange fires when the selected value changes
KiesSpeler(vak, pos, spelerId) ==
  /\ vakActionPopup = NoPopup
  /\ spelerId \in bank(state) \cup {NoSpeler}
  /\ spelerId # (IF vak = "aanvallend" THEN state.aanval ELSE state.verdediging)[pos + 1]
  /\ state' = setVakPosState(state, vak, pos, spelerId, FALSE)
  /\ UNCHANGED <<vakActionPopup, handmatig>>

\* ----- roster ------------------------------------------------------------------
\* uid gives the new player an id that no player has
addSpeler(id) ==
  /\ vakActionPopup = NoPopup
  /\ id \notin state.spelers
  /\ state' = [state EXCEPT !.spelers = @ \cup {id}]
  /\ UNCHANGED <<vakActionPopup, handmatig>>

\* mutant: the player leaves the roster and stays in the line-up
delSpelerState_Blijft(s, id) ==
  [s EXCEPT !.spelers = @ \ {id}]

delSpelerState(s, id) ==
  [s EXCEPT !.spelers = @ \ {id},
            !.aanval = [i \in 1..VakGrootte |-> IF s.aanval[i] = id THEN NoSpeler ELSE s.aanval[i]],
            !.verdediging = [i \in 1..VakGrootte |->
                               IF s.verdediging[i] = id THEN NoSpeler ELSE s.verdediging[i]]]

\* the 'Verwijder' button of a player of the roster
delSpeler(id) ==
  /\ vakActionPopup = NoPopup
  /\ id \in state.spelers
  /\ state' = delSpelerState(state, id)
  /\ UNCHANGED <<vakActionPopup, handmatig>>

\* a team file with an array of players replaces the roster and empties the
\* line-up
handleImportTeamFile(spelers) ==
  /\ vakActionPopup = NoPopup
  /\ state' = [state EXCEPT
                 !.spelers = spelers,
                 !.aanval = <<NoSpeler, NoSpeler, NoSpeler, NoSpeler>>,
                 !.verdediging = <<NoSpeler, NoSpeler, NoSpeler, NoSpeler>>]
  /\ UNCHANGED <<vakActionPopup, handmatig>>

\* ----- possession --------------------------------------------------------------
\* the players that stand in a zone
veldSpelers(s) == s.spelers \cap toegewezenIds(s)

\* the reasons PossessionModal offers for a team
BalbezitRedenen(team) ==
  IF team = "thuis"
    THEN {"Pass Onderschept", "Bal uit", "Vrijebal", "Strafworp"}
    ELSE {"Pass Onderschept", "Bal uit", "Vrije bal tegen", "Strafworp tegen"}

\* mutant: the event of the away team keeps the empty player
logBalbezitState_GeenSentinel(s, team, reden, spelerId) ==
  LET e == LogRecord(Len(s.log) + 1, s, Geen, "Balbezit", reden, spelerId,
                     Absent, team, Geen, Geen, getCurrentAttackInfo(s))
      vak == IF team = "thuis" THEN "aanvallend" ELSE "verdedigend"
      next == [s EXCEPT !.log = <<e>> \o s.log, !.possessionOwner = team]
  IN startAttackForVak(next, vak)

\* the event has no vak
logBalbezitState(s, team, reden, spelerId) ==
  LET effectiveSpelerId == IF team = "uit" /\ spelerId = NoSpeler
                             THEN TEGENSTANDER_ID ELSE spelerId
      e == LogRecord(Len(s.log) + 1, s, Geen, "Balbezit", reden, effectiveSpelerId,
                     Absent, team, Geen, Geen, getCurrentAttackInfo(s))
      vak == IF team = "thuis" THEN "aanvallend" ELSE "verdedigend"
      next == [s EXCEPT !.log = <<e>> \o s.log, !.possessionOwner = team]
  IN startAttackForVak(next, vak)

\* onSave of PossessionModal, the only caller of logBalbezit; the modal is
\* rendered while possPopup is set, and no callback of the current App sets it
logBalbezit(team, reden, spelerId) ==
  /\ vakActionPopup = NoPopup
  /\ reden \in BalbezitRedenen(team)
  /\ spelerId \in veldSpelers(state) \cup {NoSpeler}
  /\ state' = logBalbezitState(state, team, reden, spelerId)
  /\ UNCHANGED <<vakActionPopup, handmatig>>

\* ----- shots and rebounds --------------------------------------------------------
\* Geen stands for undefined
detectVakForSpeler(s, spelerId) ==
  IF spelerId = NoSpeler THEN Geen
  ELSE IF \E i \in 1..VakGrootte : s.aanval[i] = spelerId THEN "aanvallend"
  ELSE IF \E i \in 1..VakGrootte : s.verdediging[i] = spelerId THEN "verdedigend"
  ELSE Geen

SchotTypes == {"Schot", "Rebound"}

SchotResultaten == {"Raak", "Mis"}

\* mutant: a shot that is Raak counts for the home team
logSchotOfReboundState_Telt(s, type, resultaat, spelerId) ==
  LET gevonden == detectVakForSpeler(s, spelerId)
      vak == IF gevonden = Geen THEN "aanvallend" ELSE gevonden
      team == IF vak = "aanvallend" THEN "thuis" ELSE "uit"
      reden == IF type = "Schot"
                 THEN (IF resultaat = "Raak" THEN "Gescoord" ELSE "Gemist Schot")
                 ELSE "Rebound"
      e == LogRecord(Len(s.log) + 1, s, vak, type, reden, spelerId, Absent, team,
                     Geen, resultaat, getCurrentAttackInfo(s))
  IN [s EXCEPT !.log = <<e>> \o s.log,
               !.scoreThuis = IF resultaat = "Raak" THEN @ + 1 ELSE @]

\* soort carries the type of the event
logSchotOfReboundState(s, type, resultaat, spelerId) ==
  LET gevonden == detectVakForSpeler(s, spelerId)
      vak == IF gevonden = Geen THEN "aanvallend" ELSE gevonden
      team == IF vak = "aanvallend" THEN "thuis" ELSE "uit"
      reden == IF type = "Schot"
                 THEN (IF resultaat = "Raak" THEN "Gescoord" ELSE "Gemist Schot")
                 ELSE "Rebound"
      e == LogRecord(Len(s.log) + 1, s, vak, type, reden, spelerId, Absent, team,
                     Geen, resultaat, getCurrentAttackInfo(s))
  IN [s EXCEPT !.log = <<e>> \o s.log]

\* logSchotOfRebound applied to a player of the roster or to none; its only
\* caller is onSave of ShotReboundModal, rendered while shotPopup is set, and no
\* callback of the current App sets it
logSchotOfRebound(type, resultaat, spelerId) ==
  /\ vakActionPopup = NoPopup
  /\ spelerId \in state.spelers \cup {NoSpeler}
  /\ state' = logSchotOfReboundState(state, type, resultaat, spelerId)
  /\ UNCHANGED <<vakActionPopup, handmatig>>

\* ----- attack time ---------------------------------------------------------------
\* the seconds an attack counts for: up to the clock while it is open, nothing
\* when it does not end after its start
AttackDuur(s, a) ==
  LET end == IF a.endSeconden # Absent THEN a.endSeconden ELSE s.tijdSeconden
  IN IF end > a.startSeconden THEN end - a.startSeconden ELSE 0

RECURSIVE SomDuur(_, _, _, _, _)
SomDuur(s, attacks, i, team, vak) ==
  IF i > Len(attacks) THEN 0
  ELSE (IF attacks[i].team = team /\ attacks[i].vak = vak
          THEN AttackDuur(s, attacks[i]) ELSE 0)
       + SomDuur(s, attacks, i + 1, team, vak)

\* the export: home attacks in aanvallend, away attacks in verdedigend
computeAttackSecondsPerTeam(s) ==
  [ thuis |-> SomDuur(s, s.attacks, 1, "thuis", "aanvallend"),
    uit |-> SomDuur(s, s.attacks, 1, "uit", "verdedigend") ]

\* the match tab: the attacks of the team in aanvallend
computeAttackSeconds(s, team) == SomDuur(s, s.attacks, 1, team, "aanvallend")

\* ----- stored and shared state ------------------------------------------------------
\* a JSON value is a record of its JavaScript type t and its value v; an object
\* is a function from the names of its fields to JSON values
JNum(n) == [t |-> "number", v |-> n]
JBool(b) == [t |-> "boolean", v |-> b]
JStr(x) == [t |-> "string", v |-> x]
JNull == [t |-> "null", v |-> "null"]
JArr(seq) == [t |-> "array", v |-> seq]
JObj(f) == [t |-> "object", v |-> f]

\* the entries of the roster in a fixed order
RECURSIVE SpelersArray(_)
SpelersArray(S) ==
  IF S = {} THEN <<>>
  ELSE LET x == CHOOSE y \in S : y = "p1" \/ "p1" \notin S
       IN <<JStr(x)>> \o SpelersArray(S \ {x})

\* a slot: null when empty
JSlot(id) == IF id = NoSpeler THEN JNull ELSE JStr(id)

\* JSON.parse(JSON.stringify(s)): fields that are undefined are left out of
\* events and attacks, null stays null
JSONVan(s) ==
  [ spelers |-> JArr(SpelersArray(s.spelers)),
    aanval |-> JArr([i \in 1..VakGrootte |-> JSlot(s.aanval[i])]),
    verdediging |-> JArr([i \in 1..VakGrootte |-> JSlot(s.verdediging[i])]),
    scoreThuis |-> JNum(s.scoreThuis),
    scoreUit |-> JNum(s.scoreUit),
    tijdSeconden |-> JNum(s.tijdSeconden),
    klokLoopt |-> JBool(s.klokLoopt),
    halfMinuten |-> JNum(s.halfMinuten),
    log |-> JArr(s.log),
    possessionOwner |-> IF s.possessionOwner = Geen THEN JNull ELSE JStr(s.possessionOwner),
    possessionThuisSeconden |-> JNum(s.possessionThuisSeconden),
    possessionUitSeconden |-> JNum(s.possessionUitSeconden),
    autoVakWisselNa2 |-> JBool(s.autoVakWisselNa2),
    goalsSinceLastSwitch |-> JNum(s.goalsSinceLastSwitch),
    aanvalLinks |-> JBool(s.aanvalLinks),
    currentHalf |-> JNum(s.currentHalf),
    activeVak |-> JStr(s.activeVak),
    attacks |-> JArr(s.attacks),
    currentAttackId |-> IF s.currentAttackId = NoId THEN JNull
                          ELSE JStr(ToString(s.currentAttackId)),
    matchEnded |-> JBool(s.matchEnded) ]

\* s.<veld> of a raw object: JNull stands for undefined as well, which every
\* test of sanitizeState treats alike
Veld(s, veld) == IF veld \in DOMAIN s THEN s[veld] ELSE JNull

LeegVak == JArr([i \in 1..VakGrootte |-> JNull])

toArr4(a) ==
  IF a.t = "array"
    THEN JArr([i \in 1..VakGrootte |-> IF i <= Len(a.v) THEN a.v[i] ELSE JNull])
    ELSE LeegVak

\* mutant: a number that is missing becomes 0
num_Nul(v, d) == IF v.t = "number" THEN v ELSE JNum(0)

num(v, d) == IF v.t = "number" THEN v ELSE JNum(d)

bool(v, d) == IF v.t = "boolean" THEN v ELSE JBool(d)

\* mutant: a stored second half is not recognised
sanitizeState_Helft(raw) ==
  LET s == IF raw.t = "object" THEN raw.v ELSE <<>>
  IN [ spelers |-> IF Veld(s, "spelers").t = "array" THEN Veld(s, "spelers") ELSE JArr(<<>>),
       aanval |-> toArr4(Veld(s, "aanval")),
       verdediging |-> toArr4(Veld(s, "verdediging")),
       scoreThuis |-> num(Veld(s, "scoreThuis"), DEFAULT_STATE.scoreThuis),
       scoreUit |-> num(Veld(s, "scoreUit"), DEFAULT_STATE.scoreUit),
       tijdSeconden |-> num(Veld(s, "tijdSeconden"), DEFAULT_STATE.tijdSeconden),
       klokLoopt |-> bool(Veld(s, "klokLoopt"), DEFAULT_STATE.klokLoopt),
       halfMinuten |-> num(Veld(s, "halfMinuten"), DEFAULT_STATE.halfMinuten),
       log |-> IF Veld(s, "log").t = "array" THEN Veld(s, "log") ELSE JArr(<<>>),
       possessionOwner |->
         IF Veld(s, "possessionOwner") \in {JStr("thuis"), JStr("uit")}
           THEN Veld(s, "possessionOwner") ELSE JNull,
       possessionThuisSeconden |->
         num(Veld(s, "possessionThuisSeconden"), DEFAULT_STATE.possessionThuisSeconden),
       possessionUitSeconden |->
         num(Veld(s, "possessionUitSeconden"), DEFAULT_STATE.possessionUitSeconden),
       autoVakWisselNa2 |-> bool(Veld(s, "autoVakWisselNa2"), DEFAULT_STATE.autoVakWisselNa2),
       goalsSinceLastSwitch |->
         num(Veld(s, "goalsSinceLastSwitch"), DEFAULT_STATE.goalsSinceLastSwitch),
       aanvalLinks |-> bool(Veld(s, "aanvalLinks"), DEFAULT_STATE.aanvalLinks),
       currentHalf |-> JNum(1),
       activeVak |-> IF Veld(s, "activeVak") = JStr("verdedigend")
                       THEN JStr("verdedigend") ELSE JStr("aanvallend"),
       attacks |-> IF Veld(s, "attacks").t = "array"
                     THEN Veld(s, "attacks") ELSE JArr(DEFAULT_STATE.attacks),
       currentAttackId |-> IF Veld(s, "currentAttackId").t = "string"
                             THEN Veld(s, "currentAttackId") ELSE JNull,
       matchEnded |-> bool(Veld(s, "matchEnded"), DEFAULT_STATE.matchEnded) ]

\* the AppState that sanitizeState builds, as JSON values; anything that is not
\* an object counts as the empty object
sanitizeState(raw) ==
  LET s == IF raw.t = "object" THEN raw.v ELSE <<>>
  IN [ spelers |-> IF Veld(s, "spelers").t = "array" THEN Veld(s, "spelers") ELSE JArr(<<>>),
       aanval |-> toArr4(Veld(s, "aanval")),
       verdediging |-> toArr4(Veld(s, "verdediging")),
       scoreThuis |-> num(Veld(s, "scoreThuis"), DEFAULT_STATE.scoreThuis),
       scoreUit |-> num(Veld(s, "scoreUit"), DEFAULT_STATE.scoreUit),
       tijdSeconden |-> num(Veld(s, "tijdSeconden"), DEFAULT_STATE.tijdSeconden),
       klokLoopt |-> bool(Veld(s, "klokLoopt"), DEFAULT_STATE.klokLoopt),
       halfMinuten |-> num(Veld(s, "halfMinuten"), DEFAULT_STATE.halfMinuten),
       log |-> IF Veld(s, "log").t = "array" THEN Veld(s, "log") ELSE JArr(<<>>),
       possessionOwner |->
         IF Veld(s, "possessionOwner") \in {JStr("thuis"), JStr("uit")}
           THEN Veld(s, "possessionOwner") ELSE JNull,
       possessionThuisSeconden |->
         num(Veld(s, "possessionThuisSeconden"), DEFAULT_STATE.possessionThuisSeconden),
       possessionUitSeconden |->
         num(Veld(s, "possessionUitSeconden"), DEFAULT_STATE.possessionUitSeconden),
       autoVakWisselNa2 |-> bool(Veld(s, "autoVakWisselNa2"), DEFAULT_STATE.autoVakWisselNa2),
       goalsSinceLastSwitch |->
         num(Veld(s, "goalsSinceLastSwitch"), DEFAULT_STATE.goalsSinceLastSwitch),
       aanvalLinks |-> bool(Veld(s, "aanvalLinks"), DEFAULT_STATE.aanvalLinks),
       currentHalf |-> IF Veld(s, "currentHalf") = JNum(2) THEN JNum(2) ELSE JNum(1),
       activeVak |-> IF Veld(s, "activeVak") = JStr("verdedigend")
                       THEN JStr("verdedigend") ELSE JStr("aanvallend"),
       attacks |-> IF Veld(s, "attacks").t = "array"
                     THEN Veld(s, "attacks") ELSE JArr(DEFAULT_STATE.attacks),
       currentAttackId |-> IF Veld(s, "currentAttackId").t = "string"
                             THEN Veld(s, "currentAttackId") ELSE JNull,
       matchEnded |-> bool(Veld(s, "matchEnded"), DEFAULT_STATE.matchEnded) ]

\* a text that atob or JSON.parse rejects, a text that holds a JSON value, and
\* no text at all
Kapot == [t |-> "kapot", v |-> "kapot"]
Tekst(json) == [t |-> "tekst", v |-> json]
GeenTekst == JNull

\* null for a text that does not decode
decodeStateFromShare(encoded) ==
  IF encoded.t = "tekst" THEN sanitizeState(encoded.v) ELSE JNull

\* null without the parameter s
getSharedStateFromUrl(encoded) ==
  IF encoded = GeenTekst THEN JNull ELSE decodeStateFromShare(encoded)

\* the initial state of App: the shared state of the URL, else what local
\* storage holds, else DEFAULT_STATE
BeginState(gedeeld, opslag) ==
  LET shared == getSharedStateFromUrl(gedeeld)
  IN IF shared # JNull THEN shared
     ELSE IF opslag.t = "tekst" THEN sanitizeState(opslag.v)
     ELSE JSONVan(DEFAULT_STATE)

\* ----- hydration ---------------------------------------------------------------
\* App() starts from the state persisted in localStorage (sanitizeState of the
\* last state written by the persist effect).  The initial states are states an
\* earlier session reached and persisted, each built here by replaying the
\* operators above from DEFAULT_STATE.
RECURSIVE TickN(_, _)
TickN(s, n) ==
  IF n = 0 THEN s
  ELSE IF n = 1 THEN TickState(s)
  ELSE LET v == TickN(s, n \div 2)
       IN IF v.tijdSeconden >= 0 THEN TickN(v, n - (n \div 2)) ELSE v

\* two players added, one placed in each zone on the settings tab (no logging),
\* the half length brought to h with the minus button
Basis(h) ==
  [DEFAULT_STATE EXCEPT
     !.spelers = AlleSpelers,
     !.aanval = <<"p1", NoSpeler, NoSpeler, NoSpeler>>,
     !.verdediging = <<"p2", NoSpeler, NoSpeler, NoSpeler>>,
     !.halfMinuten = h]

\* started, run for n seconds, paused
Gelopen(h, n) ==
  [TickN([Basis(h) EXCEPT !.klokLoopt = TRUE], n) EXCEPT !.klokLoopt = FALSE]

\* run until LateTicks seconds before the end of the first half
Laat(h) == Gelopen(h, HalfTotal(Basis(h)) - LateTicks)

\* as Laat, with a steal in the defending zone logged after the first second
LaatBezit(h) ==
  LET s1 == TickN([Basis(h) EXCEPT !.klokLoopt = TRUE], 1)
      s2 == logStealState(startAttackForVak(s1, "verdedigend"), NoSpeler)
  IN [TickN(s2, HalfTotal(Basis(h)) - LateTicks - 1) EXCEPT !.klokLoopt = FALSE]

\* ----- bounds on the exploration ------------------------------------------------
\* the timer is followed through the first EarlyTicks and the last LateTicks
\* seconds around each half boundary, and whenever the clock is at or past the
\* end of the current half
TickBinnenVenster ==
  \/ \E k \in 0..2 :
       /\ state.tijdSeconden >= k * HalfTotal(state) - LateTicks
       /\ state.tijdSeconden < k * HalfTotal(state) + EarlyTicks
  \/ state.tijdSeconden >= state.currentHalf * HalfTotal(state)

BezitRuimte ==
  state.possessionThuisSeconden + state.possessionUitSeconden < MaxBezit

LogRuimte == Len(state.log) < MaxLog

AttackRuimte == Len(state.attacks) < MaxAttacks

\* ----- Spec: the match flow (clock, zone taps, outcomes, steals, end, clear) ------
Init ==
  /\ state \in {Basis(MinHalfMinuten), Laat(MinHalfMinuten)}
  /\ vakActionPopup = NoPopup
  /\ handmatig = FALSE

Next ==
  \/ TickBinnenVenster /\ BezitRuimte /\ Tick
  \/ StartKlok
  \/ PauzeKlok
  \/ TweedeHelft
  \/ AttackRuimte /\ \E vak \in VakSides : handleVakClick(vak)
  \/ PopupSluiten
  \/ LogRuimte /\ AttackRuimte /\
       \E actie \in Acties, uitkomst \in Uitkomsten : handleVakActieLog(actie, uitkomst, NoSpeler)
  \/ LogRuimte /\ AttackRuimte /\ onSteal(NoSpeler)
  \/ eindeWedstrijd
  \/ clearWedstrijd

Spec == Init /\ [][Next]_vars

\* ----- SpecScore: outcomes, manual score buttons, clear and reset ----------------
NextScore ==
  \/ TweedeHelft
  \/ resetKlok
  \/ AttackRuimte /\ \E vak \in VakSides : handleVakClick(vak)
  \/ PopupSluiten
  \/ LogRuimte /\ AttackRuimte /\
       \E actie \in Acties, uitkomst \in Uitkomsten : handleVakActieLog(actie, uitkomst, NoSpeler)
  \/ LogRuimte /\ AttackRuimte /\ onSteal(NoSpeler)
  \/ ScoreThuisMin
  \/ state.scoreThuis < MaxScore /\ ScoreThuisPlus
  \/ ScoreUitMin
  \/ state.scoreUit < MaxScore /\ ScoreUitPlus
  \/ clearWedstrijd
  \/ resetAlles

SpecScore == Init /\ [][NextScore]_vars

\* ----- SpecKlok: the clock alone, for every half length ---------------------------
InitKlok ==
  /\ \E h \in MinHalfMinuten..HalfMinutenLimiet :
       state = [DEFAULT_STATE EXCEPT !.halfMinuten = h, !.klokLoopt = TRUE]
  /\ vakActionPopup = NoPopup
  /\ handmatig = FALSE

NextKlok ==
  \/ Tick
  \/ StartKlok

SpecKlok == InitKlok /\ [][NextKlok]_vars

\* ----- SpecDuur: the clock with half-length changes and possession ---------------
InitDuur ==
  /\ \E h \in MinHalfMinuten..MaxDuur : state \in {Basis(h), Laat(h), LaatBezit(h)}
  /\ vakActionPopup = NoPopup
  /\ handmatig = FALSE

VoorsprongRuimte ==
  state.possessionThuisSeconden + state.possessionUitSeconden
    < state.tijdSeconden + MaxVoorsprong

NextDuur ==
  \/ TickBinnenVenster /\ VoorsprongRuimte /\ Tick
  \/ StartKlok
  \/ PauzeKlok
  \/ resetKlok
  \/ TweedeHelft
  \/ state.halfMinuten > MinHalfMinuten /\ HalfMinutenMin
  \/ state.halfMinuten < MaxDuur /\ HalfMinutenPlus
  \/ AttackRuimte /\ \E vak \in VakSides : handleVakClick(vak)
  \/ PopupSluiten
  \/ LogRuimte /\ AttackRuimte /\ onSteal(NoSpeler)

SpecDuur == InitDuur /\ [][NextDuur]_vars
\* ----- SpecWissel: line-up changes on the match tab and the settings tab ----------
\* the line-up with p1 in the defending zone and p2 on the bank
Opstelling(s) ==
  [s EXCEPT !.aanval = <<NoSpeler, NoSpeler, NoSpeler, NoSpeler>>,
            !.verdediging = <<"p1", NoSpeler, NoSpeler, NoSpeler>>]

\* the second half started at the end of the first and run past its start
Verlengd(h) ==
  LET s1 == [Laat(h) EXCEPT !.currentHalf = 2,
                            !.tijdSeconden = Max(Laat(h).tijdSeconden, HalfTotal(Laat(h))),
                            !.klokLoopt = TRUE,
                            !.aanvalLinks = ~Laat(h).aanvalLinks]
  IN [TickN(s1, EarlyTicks) EXCEPT !.klokLoopt = FALSE]

\* a zone tapped late in the first half, then the clock reset
Herstart(h) == resetKlokState(startAttackForVak(Laat(h), "aanvallend"))

InitWissel ==
  /\ state \in {Opstelling(Basis(MinHalfMinuten)),
                Opstelling(Herstart(MinHalfMinuten)),
                Opstelling(Laat(MinHalfMinuten)),
                Opstelling(Verlengd(MinHalfMinuten)),
                Opstelling(Gelopen(DEFAULT_STATE.halfMinuten, GelopenTicks))}
  /\ vakActionPopup = NoPopup
  /\ handmatig = FALSE

WisselLogRuimte == Len(state.log) < MaxWisselLog

Slots == 0..(Min(MaxPos, VakGrootte) - 1)

NextWissel ==
  \/ resetKlok
  \/ TweedeHelft
  \/ WisselLogRuimte /\
       \E vak \in VakSides, pos \in Slots, id \in AlleSpelers \cup {NoSpeler} :
         WisselKnop(vak, pos, id)
  \/ WisselLogRuimte /\
       \E vak \in VakSides, pos \in Slots, id \in AlleSpelers \cup {NoSpeler} :
         KiesSpeler(vak, pos, id)

SpecWissel == InitWissel /\ [][NextWissel]_vars

\* ----- SpecAuto: goals with the automatic zone swap switched on and off -----------
InitAuto ==
  /\ state \in {Laat(MinHalfMinuten),
                [Laat(MinHalfMinuten) EXCEPT !.autoVakWisselNa2 = ~DEFAULT_STATE.autoVakWisselNa2]}
  /\ vakActionPopup = NoPopup
  /\ handmatig = FALSE

AutoLogRuimte == Len(state.log) < MaxAutoLog

AutoAttackRuimte == Len(state.attacks) < MaxAutoAttacks

NextAuto ==
  \/ ToggleAutoVakWissel
  \/ wisselVakken
  \/ AutoAttackRuimte /\ \E vak \in VakSides : handleVakClick(vak)
  \/ PopupSluiten
  \/ AutoLogRuimte /\ AutoAttackRuimte /\
       \E actie \in Acties, uitkomst \in Uitkomsten : handleVakActieLog(actie, uitkomst, NoSpeler)

SpecAuto == InitAuto /\ [][NextAuto]_vars

\* ----- SpecLog: everything that writes the log, with clock resets and half-length
\* changes in between -------------------------------------------------------------
InitLog ==
  /\ state = Opstelling(Laat(MinHalfMinuten))
  /\ vakActionPopup = NoPopup
  /\ handmatig = FALSE

LogboekRuimte == Len(state.log) < MaxLogboek

\* substitutions are followed in slot 0 of either zone
NextLog ==
  \/ resetKlok
  \/ state.halfMinuten \in (MinHalfMinuten + 1)..MaxDuur /\ HalfMinutenMin
  \/ state.halfMinuten < MaxDuur /\ HalfMinutenPlus
  \/ LogboekRuimte /\ AttackRuimte /\ \E vak \in VakSides : handleVakClick(vak)
  \/ PopupSluiten
  \/ LogboekRuimte /\ AttackRuimte /\
       \E actie \in Acties, uitkomst \in Uitkomsten : handleVakActieLog(actie, uitkomst, NoSpeler)
  \/ LogboekRuimte /\
       \E vak \in VakSides, id \in AlleSpelers \cup {NoSpeler} : WisselKnop(vak, 0, id)
  \/ clearWedstrijd
  \/ resetAlles

SpecLog == InitLog /\ [][NextLog]_vars

\* ----- SpecHelft: the clock buttons, the second half, the half length, clear
\* and reset, from states that hold a log, attacks, a score and possession ---------
\* as Laat, with the automatic swap on, a goal in the attacking zone and a steal
\* in the defending zone logged in the last second
MetDoelpunt(h) ==
  LET s0 == [Laat(h) EXCEPT !.autoVakWisselNa2 = TRUE]
      s1 == handleVakActieLogState(startAttackForVak(s0, "aanvallend"),
                                   "aanvallend", "Schot", "Raak", NoSpeler)
  IN logStealState(s1, NoSpeler)

InitHelft ==
  /\ \E h \in MinHalfMinuten..MaxDuur : state \in {Basis(h), Laat(h), MetDoelpunt(h)}
  /\ vakActionPopup = NoPopup
  /\ handmatig = FALSE

NextHelft ==
  \/ TickBinnenVenster /\ VoorsprongRuimte /\ Tick
  \/ StartKlok
  \/ PauzeKlok
  \/ resetKlok
  \/ TweedeHelft
  \/ state.halfMinuten \in (MinHalfMinuten + 1)..MaxDuur /\ HalfMinutenMin
  \/ state.halfMinuten < MaxDuur /\ HalfMinutenPlus
  \/ clearWedstrijd
  \/ resetAlles

SpecHelft == InitHelft /\ [][NextHelft]_vars

\* ----- SpecEinde: the clock, zone taps and the end of a half or the match --------
NextEinde ==
  \/ TickBinnenVenster /\ BezitRuimte /\ Tick
  \/ StartKlok
  \/ PauzeKlok
  \/ TweedeHelft
  \/ AttackRuimte /\ \E vak \in VakSides : handleVakClick(vak)
  \/ PopupSluiten
  \/ eindeWedstrijd

SpecEinde == Init /\ [][NextEinde]_vars

\* ----- SpecBalbezit: possession changes and steals between zone taps, clock stopped -------------
Teams == {"thuis", "uit"}

AlleBalbezitRedenen == BalbezitRedenen("thuis") \cup BalbezitRedenen("uit")

InitBalbezit ==
  /\ state \in {Basis(MinHalfMinuten), Laat(MinHalfMinuten)}
  /\ vakActionPopup = NoPopup
  /\ handmatig = FALSE

NextBalbezit ==
  \/ AttackRuimte /\ \E vak \in VakSides : handleVakClick(vak)
  \/ PopupSluiten
  \/ LogRuimte /\ AttackRuimte /\
       \E team \in Teams, reden \in AlleBalbezitRedenen, id \in AlleSpelers \cup {NoSpeler} :
         logBalbezit(team, reden, id)
  \/ LogRuimte /\ AttackRuimte /\ \E id \in AlleSpelers \cup {NoSpeler} : onSteal(id)

SpecBalbezit == InitBalbezit /\ [][NextBalbezit]_vars

\* ----- SpecSchot: shots and rebounds between zone taps and zone swaps -------------
InitSchot ==
  /\ state \in {Laat(MinHalfMinuten), Opstelling(Laat(MinHalfMinuten))}
  /\ vakActionPopup = NoPopup
  /\ handmatig = FALSE

NextSchot ==
  \/ AttackRuimte /\ \E vak \in VakSides : handleVakClick(vak)
  \/ PopupSluiten
  \/ wisselVakken
  \/ LogRuimte /\
       \E type \in SchotTypes, resultaat \in SchotResultaten, id \in AlleSpelers \cup {NoSpeler} :
         logSchotOfRebound(type, resultaat, id)

SpecSchot == InitSchot /\ [][NextSchot]_vars

\* ----- SpecOpstelling: roster, line-up, zone swaps and goals with the automatic
\* swap ----------------------------------------------------------------------------
InitOpstelling ==
  /\ state \in {DEFAULT_STATE, MetDoelpunt(MinHalfMinuten)}
  /\ vakActionPopup = NoPopup
  /\ handmatig = FALSE

NextOpstelling ==
  \/ \E id \in AlleSpelers : addSpeler(id)
  \/ \E id \in AlleSpelers : delSpeler(id)
  \/ \E spelers \in SUBSET AlleSpelers : handleImportTeamFile(spelers)
  \/ \E vak \in VakSides, pos \in Slots, id \in AlleSpelers \cup {NoSpeler} :
       KiesSpeler(vak, pos, id)
  \/ AutoLogRuimte /\
       \E vak \in VakSides, id \in AlleSpelers \cup {NoSpeler} : WisselKnop(vak, 0, id)
  \/ wisselVakken
  \/ AutoAttackRuimte /\ \E vak \in VakSides : handleVakClick(vak)
  \/ PopupSluiten
  \/ AutoLogRuimte /\ AutoAttackRuimte /\
       \E actie \in Acties, uitkomst \in Uitkomsten : handleVakActieLog(actie, uitkomst, NoSpeler)

SpecOpstelling == InitOpstelling /\ [][NextOpstelling]_vars

\* ----- SpecActie: every action and outcome of the zone popup ------------------------
InitActie ==
  /\ state \in {Laat(MinHalfMinuten),
                [Laat(MinHalfMinuten) EXCEPT !.autoVakWisselNa2 = ~DEFAULT_STATE.autoVakWisselNa2]}
  /\ vakActionPopup = NoPopup
  /\ handmatig = FALSE

NextActie ==
  \/ AttackRuimte /\ \E vak \in VakSides : handleVakClick(vak)
  \/ PopupSluiten
  \/ LogRuimte /\ AttackRuimte /\
       \E actie \in AlleActies, uitkomst \in Uitkomsten, id \in AlleSpelers \cup {NoSpeler} :
         handleVakActieLog(actie, uitkomst, id)

SpecActie == InitActie /\ [][NextActie]_vars

\* ----- SpecHerstel: App starts from what local storage and the URL hold. In this
\* specification state is the AppState as JSON values --------------------------------
\* second half of a match with a goal, a steal and a running attack
Opgeslagen ==
  JSONVan([MetDoelpunt(MinHalfMinuten) EXCEPT
             !.currentHalf = 2,
             !.tijdSeconden = HalfTotal(MetDoelpunt(MinHalfMinuten)),
             !.aanvalLinks = ~DEFAULT_STATE.aanvalLinks,
             !.klokLoopt = TRUE])

Velden == DOMAIN Opgeslagen

\* values a stored field may hold
Waarden ==
  {JNum(7), JNum(2), JStr("x"), JStr("uit"), JStr("verdedigend"), JBool(TRUE), JNull,
   JArr(<<JNum(7), JNull, JNull, JNull>>)}

\* the stored object with one field replaced, next to a field AppState does not have
Verstoor(s, veld, waarde) ==
  [g \in Velden \cup {"onbekend"} |->
     IF g = veld THEN waarde ELSE IF g = "onbekend" THEN JNum(1) ELSE s[g]]

Zonder(s, veld) == [g \in Velden \ {veld} |-> s[g]]

Afwijkingen(s) == Cardinality({g \in Velden : s[g] # Opgeslagen[g]})

InitHerstel ==
  /\ state = BeginState(GeenTekst, Tekst(JObj(Opgeslagen)))
  /\ vakActionPopup = NoPopup
  /\ handmatig = FALSE

\* App starts on a stored state in which one field holds another value
Herlaad(veld, waarde) ==
  /\ state' = BeginState(GeenTekst, Tekst(JObj(Verstoor(state, veld, waarde))))
  /\ UNCHANGED <<vakActionPopup, handmatig>>

\* App starts on a stored state that lacks one field
HerlaadZonder(veld) ==
  /\ state' = BeginState(GeenTekst, Tekst(JObj(Zonder(state, veld))))
  /\ UNCHANGED <<vakActionPopup, handmatig>>

\* App starts with a share link that does not decode
HerlaadKapot(opslag) ==
  /\ state' = BeginState(Kapot, opslag)
  /\ UNCHANGED <<vakActionPopup, handmatig>>

\* App starts with a share link that holds a state
HerlaadGedeeld(opslag) ==
  /\ state' = BeginState(Tekst(JObj(Opgeslagen)), opslag)
  /\ UNCHANGED <<vakActionPopup, handmatig>>

NextHerstel ==
  \/ Afwijkingen(state) < MaxStoringen /\ \E veld \in Velden, waarde \in Waarden : Herlaad(veld, waarde)
  \/ Afwijkingen(state) < MaxStoringen /\ \E veld \in Velden : HerlaadZonder(veld)
  \/ \E opslag \in {GeenTekst, Kapot, Tekst(JNum(7)), Tekst(JObj(state))} : HerlaadKapot(opslag)
  \/ \E opslag \in {GeenTekst, Kapot} : HerlaadGedeeld(opslag)

SpecHerstel == InitHerstel /\ [][NextHerstel]_vars

\* ----- SpecTimer: the timer next to everything that stops the clock -----------------
InitTimer ==
  /\ state \in {Laat(MinHalfMinuten), LaatBezit(MinHalfMinuten)}
  /\ vakActionPopup = NoPopup
  /\ handmatig = FALSE

\* the possession counters are followed up to MaxBezit seconds past one half
TimerRuimte ==
  state.possessionThuisSeconden + state.possessionUitSeconden
    < HalfTotal(state) + MaxBezit

NextTimer ==
  \/ TickBinnenVenster /\ TimerRuimte /\ Tick
  \/ StartKlok
  \/ PauzeKlok
  \/ resetKlok
  \/ TweedeHelft
  \/ eindeWedstrijd
  \/ clearWedstrijd

SpecTimer == InitTimer /\ [][NextTimer]_vars

\* ----- SpecRender: the timer's update and a logging handler between two renders ----
InitRender ==
  /\ state = Laat(MinHalfMinuten)
  /\ vakActionPopup = NoPopup
  /\ handmatig = FALSE

NextRender ==
  \/ TickBinnenVenster /\ BezitRuimte /\ Tick
  \/ StartKlok
  \/ PauzeKlok
  \/ TweedeHelft
  \/ AttackRuimte /\ \E vak \in VakSides : handleVakClick(vak)
  \/ PopupSluiten
  \/ LogRuimte /\ AttackRuimte /\
       \E uitkomst \in {"Raak", "Mis"} : handleVakActieLog("Schot", uitkomst, NoSpeler)
  \/ LogRuimte /\ AttackRuimte /\ TickBinnenVenster /\ BezitRuimte /\
       \E uitkomst \in {"Raak", "Mis"} : handleVakActieLogNaTick("Schot", uitkomst, NoSpeler)
  \/ LogRuimte /\ AttackRuimte /\ onSteal(NoSpeler)
  \/ LogRuimte /\ AttackRuimte /\ TickBinnenVenster /\ BezitRuimte /\ onStealNaTick(NoSpeler)
  \/ eindeWedstrijd
  \/ clearWedstrijd

SpecRender == InitRender /\ [][NextRender]_vars

\* ----- SpecStop: the running clock with the coach's actions in between -----------
\* every second is followed; the coach taps a zone and logs an outcome once,
\* before the shortest first half is over, and changes the half length at will
InitStop ==
  /\ state = Laat(MinHalfMinuten)
  /\ vakActionPopup = NoPopup
  /\ handmatig = FALSE

Vroeg == state.tijdSeconden < MinHalfMinuten * SecondenPerMinuut

NextStop ==
  \/ Tick
  \/ StartKlok
  \/ PauzeKlok
  \/ TweedeHelft
  \/ state.halfMinuten > MinHalfMinuten /\ HalfMinutenMin
  \/ state.halfMinuten < MaxDuur /\ HalfMinutenPlus
  \/ state.attacks = <<>> /\ Vroeg /\ \E vak \in VakSides : handleVakClick(vak)
  \/ PopupSluiten
  \/ state.log = <<>> /\ Vroeg /\ handleVakActieLog("Schot", "Raak", NoSpeler)

SpecStop == InitStop /\ [][NextStop]_vars

\* window.setInterval calls the callback every second for as long as the
\* interval exists
FairStop == SpecStop /\ WF_vars(Tick)

\* ----- SpecInterval: attacks and events along a clock that only moves forward -----
\* no reset clock and no shorter half; the half length is raised between the halves
NextInterval ==
  \/ TickBinnenVenster /\ BezitRuimte /\ Tick
  \/ StartKlok
  \/ TweedeHelft
  \/ state.halfMinuten < MaxDuur /\ state.currentHalf = 1 /\ ~state.klokLoopt /\ HalfMinutenPlus
  \/ AttackRuimte /\ \E vak \in VakSides : handleVakClick(vak)
  \/ PopupSluiten
  \/ LogRuimte /\ AttackRuimte /\
       \E uitkomst \in {"Raak", "Mis"} : handleVakActieLog("Schot", uitkomst, NoSpeler)
  \/ LogRuimte /\ AttackRuimte /\ TickBinnenVenster /\ BezitRuimte /\
       handleVakActieLogNaTick("Schot", "Mis", NoSpeler)
  \/ clearWedstrijd

SpecInterval == InitRender /\ [][NextInterval]_vars

\* ===== the claims ================================================================
OpenAttacks(s) == {i \in 1..Len(s.attacks) : s.attacks[i].endSeconden = Absent}

Laatste(seq) == seq[Len(seq)]

\* a step that appends one attack
OpensAttack == Len(state'.attacks) = Len(state.attacks) + 1

\* a step that prepends one zone-outcome event (the event handleVakActieLog logs)
LogsUitkomst ==
  /\ Len(state'.log) = Len(state.log) + 1
  /\ SubSeq(state'.log, 2, Len(state'.log)) = state.log
  /\ Head(state'.log).soort \in {"Kans", "Gemis"}

C1_OpenCloses ==
  OpensAttack =>
    /\ Laatste(state'.attacks).endSeconden = Absent
    /\ Laatste(state'.attacks).startSeconden = state.tijdSeconden
    /\ \A i \in OpenAttacks(state) :
         state'.attacks[i].endSeconden = Laatste(state'.attacks).startSeconden

C7_Thuis ==
  (state.activeVak = "aanvallend" /\ LogsUitkomst
     /\ Head(state'.log).vak = "aanvallend" /\ Head(state'.log).resultaat = "Raak")
  =>
    /\ state'.scoreThuis = state.scoreThuis + 1
    /\ state'.activeVak = "verdedigend"
    /\ \A i \in OpenAttacks(state) : state'.attacks[i].endSeconden = state'.tijdSeconden
    /\ OpenAttacks(state') = {Len(state'.attacks)}
    /\ Laatste(state'.attacks).team = "uit"
    /\ Laatste(state'.attacks).vak = "verdedigend"

C7_Uit ==
  (state.activeVak = "verdedigend" /\ LogsUitkomst
     /\ Head(state'.log).vak = "verdedigend" /\ Head(state'.log).resultaat = "Raak")
  =>
    /\ state'.scoreUit = state.scoreUit + 1
    /\ state'.activeVak = "aanvallend"
    /\ \A i \in OpenAttacks(state) : state'.attacks[i].endSeconden = state'.tijdSeconden
    /\ OpenAttacks(state') = {Len(state'.attacks)}
    /\ Laatste(state'.attacks).team = "thuis"
    /\ Laatste(state'.attacks).vak = "aanvallend"

\* C7: a Raak logged for the attacking zone while activeVak is aanvallend raises
\* scoreThuis by one, makes verdedigend the active zone, closes the open attack at
\* the current clock and leaves one open attack with team uit in verdedigend; a
\* Raak logged for the defending zone while activeVak is verdedigend does the
\* same for scoreUit, aanvallend and team thuis.
C7_GoalOpensAttack == [][C7_Thuis /\ C7_Uit]_vars

\* a home goal was logged: the zone tap's attack is closed at the goal's time and
\* the away attack in verdedigend is open
C7_Witness ==
  /\ Len(state.log) >= 1
  /\ Head(state.log).resultaat = "Raak"
  /\ Head(state.log).vak = "aanvallend"
  /\ state.scoreThuis = 1
  /\ state.activeVak = "verdedigend"
  /\ Len(state.attacks) = 2
  /\ state.attacks[1].endSeconden = Head(state.log).tijdSeconden
  /\ state.attacks[2].team = "uit"
  /\ state.attacks[2].endSeconden = Absent

C8_Step ==
  LogsUitkomst =>
    LET e == Head(state'.log)
    IN /\ (e.resultaat = "Raak" /\ e.vak = "aanvallend") =>
            /\ state'.scoreThuis = state.scoreThuis + 1
            /\ state'.scoreUit = state.scoreUit
       /\ (e.resultaat = "Raak" /\ e.vak = "verdedigend") =>
            /\ state'.scoreUit = state.scoreUit + 1
            /\ state'.scoreThuis = state.scoreThuis
       /\ e.resultaat # "Raak" =>
            /\ state'.scoreThuis = state.scoreThuis
            /\ state'.scoreUit = state.scoreUit
            /\ state'.attacks = state.attacks
            /\ state'.activeVak = state.activeVak

RECURSIVE ReplayScore(_)
ReplayScore(log) ==
  IF log = <<>> THEN [thuis |-> 0, uit |-> 0]
  ELSE LET rest == ReplayScore(Tail(log))
           e == Head(log)
       IN [thuis |-> rest.thuis + (IF isThuisGoal(e.soort, e.vak, e.reden) THEN 1 ELSE 0),
           uit |-> rest.uit + (IF isUitGoal(e.soort, e.vak, e.reden) THEN 1 ELSE 0)]

\* C2: as long as no manual score button was used, scoreThuis is the number of
\* logged home goals (Kans, aanvallend, Gescoord or Doelpunt) and scoreUit the
\* number of logged away goals (Gemis, verdedigend, Doorgelaten or Doelpunt), which
\* is where the replay of the export ends.
C2_ScoreIsReplay ==
  ~handmatig =>
    /\ state.scoreThuis =
         Cardinality({i \in 1..Len(state.log) :
            /\ state.log[i].soort = "Kans"
            /\ state.log[i].vak = "aanvallend"
            /\ state.log[i].reden \in {"Gescoord", "Doelpunt"}})
    /\ state.scoreUit =
         Cardinality({i \in 1..Len(state.log) :
            /\ state.log[i].soort = "Gemis"
            /\ state.log[i].vak = "verdedigend"
            /\ state.log[i].reden \in {"Doorgelaten", "Doelpunt"}})
    /\ ReplayScore(state.log) = [thuis |-> state.scoreThuis, uit |-> state.scoreUit]

\* an away goal is in the log and on the board, no manual button used
C2_Witness ==
  /\ ~handmatig
  /\ state.scoreUit = 1
  /\ Len(state.log) >= 1
  /\ Head(state.log).reden = "Doorgelaten"

C3_Step ==
  /\ state.klokLoopt =>
       /\ state'.tijdSeconden = Min(state.tijdSeconden + 1, HalfTotal(state))
       /\ state'.klokLoopt = (state'.tijdSeconden < HalfTotal(state))
  /\ ~state.klokLoopt => state'.tijdSeconden = state.tijdSeconden

\* C3: in half 1, for every half length 1..60, the clock moves only while it
\* runs, each tick adds one second up to halfMinuten*60, the tick that reaches
\* halfMinuten*60 stops the clock, and a tick after a restart there leaves
\* tijdSeconden at halfMinuten*60.
C3_ClockCap ==
  /\ [](state.currentHalf = 1 /\ state.tijdSeconden <= HalfTotal(state))
  /\ [][C3_Step]_vars

\* the longest half ran to its end and the clock stopped
C3_Witness ==
  /\ state.halfMinuten = HalfMinutenLimiet
  /\ state.tijdSeconden = HalfMinutenLimiet * SecondenPerMinuut
  /\ ~state.klokLoopt

\* C4: the two possession counters together never exceed the clock.
C4_PossessionWithinClock ==
  state.possessionThuisSeconden + state.possessionUitSeconden <= state.tijdSeconden

\* C5: the clock never exceeds the end of the current half.
C5_ClockWithinHalf ==
  state.tijdSeconden <= state.currentHalf * HalfTotal(state)

\* C6: only reset clock, clear match and reset all lower tijdSeconden; a tick
\* never does.
C6_ClockMonotonic ==
  [][state'.tijdSeconden < state.tijdSeconden =>
       (resetKlok \/ clearWedstrijd \/ resetAlles)]_vars
\* a goal in the sense of the log: a home goal or an away goal
IsDoelpunt(e) ==
  \/ e.soort = "Kans" /\ e.vak = "aanvallend" /\ e.reden \in {"Gescoord", "Doelpunt"}
  \/ e.soort = "Gemis" /\ e.vak = "verdedigend" /\ e.reden \in {"Doorgelaten", "Doelpunt"}

C9_Step ==
  (LogsUitkomst /\ IsDoelpunt(Head(state'.log))) =>
    /\ (state.autoVakWisselNa2 /\ state.goalsSinceLastSwitch = 1) =>
         /\ state'.aanval = state.verdediging
         /\ state'.verdediging = state.aanval
         /\ state'.goalsSinceLastSwitch = 0
    /\ (state.autoVakWisselNa2 /\ state.goalsSinceLastSwitch = 0) =>
         /\ state'.aanval = state.aanval
         /\ state'.verdediging = state.verdediging
         /\ state'.goalsSinceLastSwitch = 1
    /\ ~state.autoVakWisselNa2 =>
         /\ state'.aanval = state.aanval
         /\ state'.verdediging = state.verdediging
         /\ state'.goalsSinceLastSwitch = state.goalsSinceLastSwitch

\* C9: with autoVakWisselNa2 on, a goal logged at goalsSinceLastSwitch = 1
\* exchanges aanval and verdediging and resets the counter to 0, a goal logged at
\* 0 sets the counter to 1 and leaves the arrays; with autoVakWisselNa2 off a
\* goal changes neither the arrays nor the counter.
C9_AutoWissel == [][C9_Step]_vars

\* two goals were logged with the swap switched on: the zones are exchanged and
\* the counter is back at 0
C9_Witness ==
  /\ state.autoVakWisselNa2
  /\ Len(state.log) = 2
  /\ IsDoelpunt(state.log[1])
  /\ IsDoelpunt(state.log[2])
  /\ state.goalsSinceLastSwitch = 0
  /\ state.aanval = Basis(MinHalfMinuten).verdediging
  /\ state.verdediging = Basis(MinHalfMinuten).aanval

\* the fields of a LogEvent that a substitution fixes
WisselVelden(e) ==
  [soort |-> e.soort, reden |-> e.reden, spelerId |-> e.spelerId, vak |-> e.vak,
   pos |-> e.pos, tijdSeconden |-> e.tijdSeconden, wedstrijdMinuut |-> e.wedstrijdMinuut,
   resterendSeconden |-> e.resterendSeconden, team |-> e.team]

VerwachtWissel(s, vak, pos, reden, id) ==
  [soort |-> "Wissel", reden |-> reden, spelerId |-> id, vak |-> vak,
   pos |-> pos + 1,
   tijdSeconden |-> s.tijdSeconden,
   wedstrijdMinuut |-> Max(1, (s.tijdSeconden + 59) \div 60),
   resterendSeconden |-> Max(0, s.halfMinuten * 60 - s.tijdSeconden),
   team |-> IF vak = "aanvallend" THEN "thuis" ELSE "uit"]

\* the events a logged substitution prepends, newest first
VerwachteWissels(s, vak, pos, id) ==
  LET prev == (IF vak = "aanvallend" THEN s.aanval ELSE s.verdediging)[pos + 1]
  IN IF prev = id THEN <<>>
     ELSE (IF prev # NoSpeler THEN <<VerwachtWissel(s, vak, pos, "Wissel uit", prev)>> ELSE <<>>)
          \o (IF id # NoSpeler THEN <<VerwachtWissel(s, vak, pos, "Wissel in", id)>> ELSE <<>>)

\* after the step, slot pos of the zone holds id
SlotWordt(vak, pos, id) ==
  (IF vak = "aanvallend" THEN state'.aanval ELSE state'.verdediging)[pos + 1] = id

C10_Step ==
  \A vak \in VakSides, pos \in Slots, id \in AlleSpelers \cup {NoSpeler} :
    /\ (SlotWordt(vak, pos, id) /\ WisselKnop(vak, pos, id)) =>
         LET nieuw == VerwachteWissels(state, vak, pos, id)
         IN /\ Len(state'.log) = Len(nieuw) + Len(state.log)
            /\ SubSeq(state'.log, Len(nieuw) + 1, Len(state'.log)) = state.log
            /\ \A i \in 1..Len(nieuw) : WisselVelden(state'.log[i]) = nieuw[i]
            /\ (vak = "aanvallend" /\ pos = 0 /\ id # NoSpeler
                  /\ state.aanval[1] = NoSpeler
                  /\ state.tijdSeconden = 65 /\ state.halfMinuten = 25) =>
                 /\ Len(state'.log) = Len(state.log) + 1
                 /\ Head(state'.log).reden = "Wissel in"
                 /\ Head(state'.log).wedstrijdMinuut = 2
                 /\ Head(state'.log).resterendSeconden = 1435
                 /\ Head(state'.log).pos = 1
    /\ (SlotWordt(vak, pos, id) /\ KiesSpeler(vak, pos, id)) => state'.log = state.log

\* C10: a logged setVakPos whose new occupant differs from the previous one
\* prepends 'Wissel uit' for the previous occupant, if any, and 'Wissel in' for
\* the new one, if any, each with pos = slot + 1, the clock, the match minute
\* max(1, ceil(t/60)), the remaining seconds max(0, halfMinuten*60 - t) and the
\* team of the zone; with the same occupant, or without logging, the log is
\* unchanged.  From an empty slot 0 of the attacking zone at t = 65 with 25-minute
\* halves: one 'Wissel in', minute 2, 1435 remaining, pos 1.
C10_WisselLog == [][C10_Step]_vars

\* the example: the only event is the 'Wissel in' at 65 seconds in slot 1 of the
\* attacking zone
C10_Witness ==
  /\ state.halfMinuten = 25
  /\ Len(state.log) = 1
  /\ state.log[1].reden = "Wissel in"
  /\ state.log[1].vak = "aanvallend"
  /\ state.log[1].tijdSeconden = 65
  /\ state.log[1].wedstrijdMinuut = 2
  /\ state.log[1].resterendSeconden = 1435
  /\ state.log[1].pos = 1
  /\ state.aanval[1] = state.log[1].spelerId

\* C11: every attack that has an endSeconden has startSeconden <= endSeconden.
C11_StartBeforeEnd ==
  \A i \in 1..Len(state.attacks) :
    state.attacks[i].endSeconden # Absent =>
      state.attacks[i].startSeconden <= state.attacks[i].endSeconden

\* all of an attack except its end
AttackKop(a) ==
  [id |-> a.id, index |-> a.index, team |-> a.team, vak |-> a.vak,
   startSeconden |-> a.startSeconden]

C12_Step ==
  /\ \/ state'.attacks = <<>>
     \/ /\ Len(state'.attacks) \in {Len(state.attacks), Len(state.attacks) + 1}
        /\ \A i \in 1..Len(state.attacks) :
             AttackKop(state'.attacks[i]) = AttackKop(state.attacks[i])
  /\ (state.attacks # <<>> /\ state'.attacks = <<>>) => (clearWedstrijd \/ resetAlles)

\* C12: the attack at list position i has index i in every reachable state; a
\* step keeps the list, appends one attack to it, or empties it, and only clear
\* match and reset all empty it.
C12_AttackNumbering ==
  /\ [](\A i \in 1..Len(state.attacks) : state.attacks[i].index = i)
  /\ [][C12_Step]_vars

\* a second attack was created after the clock was reset with the first one
\* open: the two are numbered 1, 2
C12_Witness ==
  /\ Len(state.attacks) = 2
  /\ state.attacks[1].index = 1
  /\ state.attacks[2].index = 2
  /\ state.attacks[1].endSeconden # Absent
  /\ state.tijdSeconden = 0
  /\ state.currentHalf = 1

C13_Step ==
  /\ \/ state'.log = state.log
     \/ state'.log = <<>>
     \/ \E k \in {1, 2} :
          /\ Len(state'.log) = Len(state.log) + k
          /\ \A i \in 1..Len(state.log) : state'.log[i + k] = state.log[i]
  /\ (state.log # <<>> /\ state'.log = <<>>) => (clearWedstrijd \/ resetAlles)
  /\ (HalfMinutenMin \/ HalfMinutenPlus) => state'.log = state.log

\* C13: a step leaves the log as it is, prepends one or two events to it with
\* every existing event unchanged, or empties it (clear match, reset all); a
\* change of halfMinuten leaves the stored resterendSeconden and wedstrijdMinuut
\* of the existing events as they are.
C13_LogAppendOnly == [][C13_Step]_vars

\* an event logged in a 1-minute half is still stored with the remaining
\* seconds of that half after the half length was raised and two more events
\* were prepended
C13_Witness ==
  /\ Len(state.log) = 3
  /\ state.halfMinuten > MinHalfMinuten
  /\ state.log[3].tijdSeconden = 59
  /\ state.log[3].resterendSeconden = 1
  /\ state.log[1].resterendSeconden > 1
  /\ state.log[1].soort = "Wissel"
  /\ state.log[2].soort = "Wissel"

\* C14: the log is in reverse-chronological order: of two adjacent entries the
\* one nearer the head has the greater or equal tijdSeconden.
C14_LogNewestFirst ==
  \A i \in 1..(Len(state.log) - 1) :
    state.log[i].tijdSeconden >= state.log[i + 1].tijdSeconden

\* after the step the clock is stopped, no attack is current or open, and the
\* attack that was open ended at the clock of the new state
C15_Gesloten ==
  /\ ~state'.klokLoopt
  /\ state'.currentAttackId = NoId
  /\ OpenAttacks(state') = {}
  /\ \A i \in OpenAttacks(state) : state'.attacks[i].endSeconden = state'.tijdSeconden

C15_Step ==
  /\ (Tick /\ state'.tijdSeconden = state'.currentHalf * state'.halfMinuten * 60)
       => C15_Gesloten
  /\ eindeWedstrijd => (C15_Gesloten /\ state'.matchEnded)

\* C15: a tick that brings tijdSeconden to currentHalf*halfMinuten*60, and end
\* match, leave klokLoopt false, currentAttackId null and no attack open, and end
\* the attack that was open at the clock of the resulting state; end match also
\* sets matchEnded.
C15_HalfEndCloses == [][C15_Step]_vars

\* the tick that ended the first half stopped the clock and closed the attack
\* that was running
C15_Witness ==
  /\ state.tijdSeconden = state.currentHalf * state.halfMinuten * 60
  /\ ~state.klokLoopt
  /\ ~state.matchEnded
  /\ state.currentAttackId = NoId
  /\ Len(state.attacks) = 1
  /\ state.attacks[1].startSeconden < state.tijdSeconden
  /\ state.attacks[1].endSeconden = state.tijdSeconden

C16_Step ==
  (HalfMinutenMin \/ HalfMinutenPlus) =>
    IF state.klokLoopt
      THEN state' = state
      ELSE /\ state'.halfMinuten \in {state.halfMinuten - 1, state.halfMinuten + 1}
           /\ state'.halfMinuten \in MinHalfMinuten..HalfMinutenLimiet

\* C16: while the clock runs the half-length buttons leave halfMinuten and the
\* rest of the state unchanged; while it is stopped they change halfMinuten by
\* one step within 1..60.
C16_HalfLengthRejectedWhileRunning == [][C16_Step]_vars

C17_Step ==
  /\ TweedeHelft => state.currentHalf = 1
  /\ (state.currentHalf = 1 /\ state'.currentHalf = 2) =>
       /\ state'.tijdSeconden =
            (IF state.tijdSeconden >= state.halfMinuten * 60
               THEN state.tijdSeconden ELSE state.halfMinuten * 60)
       /\ state'.tijdSeconden >= state.tijdSeconden
       /\ state'.aanvalLinks = ~state.aanvalLinks
       /\ ~state'.klokLoopt
  /\ (state.currentHalf = 2 /\ state'.currentHalf # 2) =>
       /\ state'.currentHalf = 1
       /\ resetKlok \/ clearWedstrijd \/ resetAlles

\* C17: the second-half button is enabled only in half 1; a step from half 1 to
\* half 2 sets tijdSeconden to max(tijdSeconden, halfMinuten*60), never less than
\* before, flips aanvalLinks and leaves the clock stopped; from half 2 only reset
\* clock, clear match and reset all lead back to half 1.
C17_SecondHalf ==
  /\ []((ENABLED TweedeHelft) => state.currentHalf = 1)
  /\ [][C17_Step]_vars

\* the second half was started with the clock already past the end of a first
\* half that had been shortened: the clock stayed where it was
C17_Witness ==
  /\ state.currentHalf = 2
  /\ state.halfMinuten = MinHalfMinuten
  /\ state.tijdSeconden > state.halfMinuten * 60
  /\ state.tijdSeconden < 2 * state.halfMinuten * 60
  /\ ~state.klokLoopt
  /\ state.aanvalLinks # DEFAULT_STATE.aanvalLinks
  /\ state.scoreThuis = 1

C18_Step ==
  resetKlok =>
    /\ state'.tijdSeconden = 0
    /\ ~state'.klokLoopt
    /\ state'.possessionOwner = Geen
    /\ state'.possessionThuisSeconden = 0
    /\ state'.possessionUitSeconden = 0
    /\ state'.currentHalf = 1
    /\ state'.log = state.log
    /\ state'.attacks = state.attacks
    /\ state'.currentAttackId = state.currentAttackId
    /\ state'.scoreThuis = state.scoreThuis
    /\ state'.scoreUit = state.scoreUit
    /\ state'.aanval = state.aanval
    /\ state'.verdediging = state.verdediging
    /\ state'.activeVak = state.activeVak
    /\ state'.goalsSinceLastSwitch = state.goalsSinceLastSwitch

\* C18: reset clock sets tijdSeconden to 0, stops the clock, clears the
\* possession owner and both possession counters and returns to half 1; the log,
\* the attacks, currentAttackId, both scores, both line-ups, activeVak and
\* goalsSinceLastSwitch stay as they were.
C18_ResetKlokFrame == [][C18_Step]_vars

\* the clock was reset in a match with a goal and a steal logged: the log, the
\* running attack, the score and the goal counter are still there
C18_Witness ==
  /\ state.tijdSeconden = 0
  /\ state.currentHalf = 1
  /\ ~state.klokLoopt
  /\ state.possessionOwner = Geen
  /\ state.possessionThuisSeconden = 0
  /\ Len(state.log) = 2
  /\ Len(state.attacks) = 3
  /\ state.currentAttackId = 3
  /\ state.scoreThuis = 1
  /\ state.goalsSinceLastSwitch = 1
  /\ state.activeVak = "aanvallend"

C19_Step ==
  \A team \in Teams, reden \in AlleBalbezitRedenen, id \in AlleSpelers \cup {NoSpeler} :
    logBalbezit(team, reden, id) =>
      /\ Len(state'.log) = Len(state.log) + 1
      /\ Tail(state'.log) = state.log
      /\ Head(state'.log).soort = "Balbezit"
      /\ Head(state'.log).vak = Geen
      /\ Head(state'.log).team = team
      /\ Head(state'.log).reden = reden
      /\ Head(state'.log).spelerId =
           (IF team = "uit" /\ id = NoSpeler THEN "__tegenstander__" ELSE id)
      /\ state'.possessionOwner = team
      /\ \A i \in OpenAttacks(state) : state'.attacks[i].endSeconden = state'.tijdSeconden
      /\ Len(state'.attacks) = Len(state.attacks) + 1
      /\ OpenAttacks(state') = {Len(state'.attacks)}
      /\ Laatste(state'.attacks).vak =
           (IF team = "thuis" THEN "aanvallend" ELSE "verdedigend")
      /\ state'.scoreThuis = state.scoreThuis
      /\ state'.scoreUit = state.scoreUit

\* C19: logBalbezit(team, reden, spelerId) prepends one Balbezit event without
\* vak and with the given team, sets possessionOwner to the team, closes the open
\* attack at the current clock and opens one in aanvallend for thuis and in
\* verdedigend for uit; for uit without a player the event carries the opponent
\* sentinel; the scores stay.
C19_LogBalbezit == [][C19_Step]_vars

\* possession went to the away team without a player while an attack was open
C19_Witness ==
  /\ Len(state.log) = 1
  /\ state.log[1].soort = "Balbezit"
  /\ state.log[1].team = "uit"
  /\ state.log[1].spelerId = TEGENSTANDER_ID
  /\ state.possessionOwner = "uit"
  /\ Len(state.attacks) = 2
  /\ state.attacks[1].endSeconden = state.log[1].tijdSeconden
  /\ state.attacks[2].vak = "verdedigend"
  /\ state.attacks[2].endSeconden = Absent

C20_Step ==
  (vakActionPopup # NoPopup /\ \E id \in AlleSpelers \cup {NoSpeler} : onSteal(id)) =>
    /\ Len(state'.log) = Len(state.log) + 1
    /\ Tail(state'.log) = state.log
    /\ Head(state'.log).soort = "Balbezit"
    /\ Head(state'.log).reden = "Schot afgevangen"
    /\ Head(state'.log).vak = vakActionPopup
    /\ Len(state'.attacks) = Len(state.attacks) + 1
    /\ OpenAttacks(state') = {Len(state'.attacks)}
    /\ vakActionPopup = "verdedigend" =>
         /\ Laatste(state'.attacks).team = "thuis"
         /\ Laatste(state'.attacks).vak = "aanvallend"
    /\ vakActionPopup = "aanvallend" =>
         /\ Laatste(state'.attacks).team = "uit"
         /\ Laatste(state'.attacks).vak = "verdedigend"
    /\ \A i \in OpenAttacks(state) : state'.attacks[i].endSeconden = state'.tijdSeconden
    /\ state'.tijdSeconden = state.tijdSeconden
    /\ state'.scoreThuis = state.scoreThuis
    /\ state'.scoreUit = state.scoreUit

\* C20: a steal prepends one Balbezit event with reden 'Schot afgevangen' and
\* opens an attack in the other zone: thuis in aanvallend after a steal in the
\* defending zone, uit in verdedigend after a steal in the attacking zone; the
\* attack that was open is closed at the current clock and the scores stay.
C20_Steal == [][C20_Step]_vars

\* a steal in the attacking zone closed the home attack and opened one for uit
C20_Witness ==
  /\ Len(state.log) = 1
  /\ state.log[1].reden = "Schot afgevangen"
  /\ state.log[1].vak = "aanvallend"
  /\ Len(state.attacks) = 2
  /\ state.attacks[1].team = "thuis"
  /\ state.attacks[1].endSeconden = state.log[1].tijdSeconden
  /\ state.attacks[2].team = "uit"
  /\ state.attacks[2].vak = "verdedigend"
  /\ state.attacks[2].endSeconden = Absent

C21_Step ==
  \A type \in SchotTypes, resultaat \in SchotResultaten, id \in AlleSpelers \cup {NoSpeler} :
    logSchotOfRebound(type, resultaat, id) =>
      /\ Len(state'.log) = Len(state.log) + 1
      /\ Tail(state'.log) = state.log
      /\ Head(state'.log).vak =
           (IF \E i \in 1..VakGrootte : state.verdediging[i] = id /\ id # NoSpeler
              THEN "verdedigend" ELSE "aanvallend")
      /\ Head(state'.log).spelerId = id
      /\ Head(state'.log).resultaat = resultaat
      /\ state'.scoreThuis = state.scoreThuis
      /\ state'.scoreUit = state.scoreUit
      /\ state'.attacks = state.attacks
      /\ state'.currentAttackId = state.currentAttackId
      /\ state'.activeVak = state.activeVak
      /\ state'.possessionOwner = state.possessionOwner

\* C21: logSchotOfRebound prepends one event whose vak is verdedigend for a
\* player of the verdediging array and aanvallend for a player of the aanval
\* array, of neither, or for no player; scores, attacks, currentAttackId,
\* activeVak and possessionOwner stay, also for Raak.
C21_SchotOfRebound == [][C21_Step]_vars

\* a shot that is Raak by a defender was logged during an attack, without a goal
C21_Witness ==
  /\ Len(state.log) >= 1
  /\ state.log[1].soort = "Schot"
  /\ state.log[1].reden = "Gescoord"
  /\ state.log[1].vak = "verdedigend"
  /\ state.log[1].spelerId # NoSpeler
  /\ state.log[1].attackId # NoId
  /\ state.scoreThuis = 0
  /\ state.scoreUit = 0

\* the eight slots of the line-up
AlleSlots == VakSides \X (1..VakGrootte)

InSlot(s, slot) ==
  (IF slot[1] = "aanvallend" THEN s.aanval ELSE s.verdediging)[slot[2]]

\* C22: no player id stands in more than one of the eight slots of aanval and
\* verdediging, whatever line-up choices, substitutions, zone swaps, automatic
\* swaps, deletions and team imports came before.
C22_UniekeOpstelling ==
  \A a, b \in AlleSlots :
    (a # b /\ InSlot(state, a) = InSlot(state, b)) => InSlot(state, a) = NoSpeler

\* both players stand in the line-up after an automatic swap moved them
C22_Witness ==
  /\ toegewezenIds(state) = AlleSpelers
  /\ state.aanval[1] = "p2"
  /\ state.verdediging[1] = "p1"
  /\ Len(state.log) > Len(MetDoelpunt(MinHalfMinuten).log)
  /\ state.goalsSinceLastSwitch = 0

C23_Step ==
  \A id \in AlleSpelers :
    delSpeler(id) =>
      /\ state'.spelers = state.spelers \ {id}
      /\ \A slot \in AlleSlots :
           InSlot(state', slot) =
             (IF InSlot(state, slot) = id THEN NoSpeler ELSE InSlot(state, slot))
      /\ state'.log = state.log

\* C23: deleting a player takes the player out of the roster and empties every
\* slot that holds the id; the log stays as it is, without a substitution event
\* and with the events of the deleted player kept.
C23_DelSpeler == [][C23_Step]_vars

\* a player that was substituted in is gone from roster and line-up, the event
\* is still in the log, and the other player still stands in a slot
C23_Witness ==
  \E id \in AlleSpelers :
    /\ id \notin state.spelers
    /\ id \notin toegewezenIds(state)
    /\ state.spelers # {}
    /\ toegewezenIds(state) # {}
    /\ Len(state.log) >= 1
    /\ state.log[1].reden = "Wissel in"
    /\ state.log[1].spelerId = id

C24_Step ==
  wisselVakken =>
    /\ state'.aanval = state.verdediging
    /\ state'.verdediging = state.aanval
    /\ state'.goalsSinceLastSwitch = 0
    /\ state'.log = state.log
    /\ state'.attacks = state.attacks
    /\ state'.currentAttackId = state.currentAttackId
    /\ state'.activeVak = state.activeVak
    /\ state'.scoreThuis = state.scoreThuis
    /\ state'.scoreUit = state.scoreUit
    /\ wisselVakkenState(state').aanval = state.aanval
    /\ wisselVakkenState(state').verdediging = state.verdediging

\* C24: swap zones exchanges the aanval and verdediging arrays and sets
\* goalsSinceLastSwitch to 0; log, attacks, currentAttackId, activeVak and scores
\* stay; a second swap gives both arrays back.
C24_WisselVakken == [][C24_Step]_vars

\* a manual swap after one goal: the arrays are exchanged, the counter is back
\* at 0 and the log holds no further event
C24_Witness ==
  /\ state.aanval = MetDoelpunt(MinHalfMinuten).verdediging
  /\ state.verdediging = MetDoelpunt(MinHalfMinuten).aanval
  /\ state.aanval # state.verdediging
  /\ state.goalsSinceLastSwitch = 0
  /\ state.log = MetDoelpunt(MinHalfMinuten).log
  /\ state.attacks = MetDoelpunt(MinHalfMinuten).attacks
  /\ state.scoreThuis = 1

\* a step that exchanges the two arrays: the button, or a goal that swaps
C25_Swap ==
  \/ wisselVakken
  \/ /\ LogsUitkomst
     /\ state'.aanval = state.verdediging
     /\ state'.verdediging = state.aanval
     /\ state.aanval # state.verdediging

C25_Step ==
  C25_Swap =>
    \A i \in 1..Len(state.attacks) :
      /\ i <= Len(state'.attacks)
      /\ state'.attacks[i].team = state.attacks[i].team
      /\ state'.attacks[i].vak = state.attacks[i].vak

C25_TeamBijVak ==
  \A i \in 1..Len(state.attacks) :
    /\ state.attacks[i].team = "thuis" <=> state.attacks[i].vak = "aanvallend"
    /\ state.attacks[i].team = "uit" <=> state.attacks[i].vak = "verdedigend"

\* C25: every attack has team thuis exactly when its vak is aanvallend and team
\* uit exactly when its vak is verdedigend; a zone swap, by the button or after
\* a goal, changes the team and vak of no attack.
C25_AttackTeam == []C25_TeamBijVak /\ [][C25_Step]_vars

\* attacks of both teams exist after an automatic swap
C25_Witness ==
  /\ \E i \in 1..Len(state.attacks) : state.attacks[i].team = "thuis"
  /\ \E i \in 1..Len(state.attacks) : state.attacks[i].team = "uit"
  /\ Len(state.log) > Len(MetDoelpunt(MinHalfMinuten).log)
  /\ state.log[1].soort \in {"Kans", "Gemis"}
  /\ state.goalsSinceLastSwitch = 0
  /\ state.aanval = MetDoelpunt(MinHalfMinuten).verdediging
  /\ state.verdediging = MetDoelpunt(MinHalfMinuten).aanval

\* C26: the attack seconds of a team are the sum over its attacks (home in
\* aanvallend, away in verdedigend) of the end, or the clock while open, minus
\* the start; the match tab shows the same home and away seconds as the export
\* writes.
C26_AttackSeconds ==
  /\ computeAttackSeconds(state, "thuis") = computeAttackSecondsPerTeam(state).thuis
  /\ computeAttackSeconds(state, "uit") = computeAttackSecondsPerTeam(state).uit

\* the table of the claim: (soort, reden) for a zone and an outcome
C27_Tabel(vak, uitkomst) ==
  IF vak = "aanvallend"
    THEN <<"Kans", CASE uitkomst = "Raak" -> "Gescoord"
                     [] uitkomst = "Korf" -> "Korf"
                     [] uitkomst = "Verdedigd" -> "Verdedigd"
                     [] uitkomst = "Mis" -> "Gemist Schot">>
    ELSE <<"Gemis", CASE uitkomst = "Raak" -> "Doorgelaten"
                      [] uitkomst = "Korf" -> "Korf"
                      [] uitkomst = "Verdedigd" -> "Verdedigd"
                      [] uitkomst = "Mis" -> "Gemist Schot">>

C27_Step ==
  \A actie \in AlleActies, uitkomst \in Uitkomsten, id \in AlleSpelers \cup {NoSpeler} :
    handleVakActieLog(actie, uitkomst, id) =>
      /\ Len(state'.log) = Len(state.log) + 1
      /\ Tail(state'.log) = state.log
      /\ Head(state'.log).vak = vakActionPopup
      /\ <<Head(state'.log).soort, Head(state'.log).reden>> = C27_Tabel(vakActionPopup, uitkomst)
      /\ Head(state'.log).actie = actie
      /\ Head(state'.log).resultaat = uitkomst
      /\ Head(state'.log).spelerId = id
      /\ Head(state'.log).team = (IF vakActionPopup = "aanvallend" THEN "thuis" ELSE "uit")

\* C27: handleVakActieLog logs soort Kans in the attacking zone with Raak as
\* Gescoord, Korf as Korf, Verdedigd as Verdedigd and Mis as Gemist Schot, and
\* soort Gemis in the defending zone with Raak as Doorgelaten and the other three
\* alike; the event carries the chosen actie and outcome, and team thuis for the
\* attacking zone, uit for the defending zone.
C27_VakActie == [][C27_Step]_vars

\* a penalty that went in was logged in the defending zone
C27_Witness ==
  /\ Len(state.log) = 1
  /\ state.log[1].vak = "verdedigend"
  /\ state.log[1].soort = "Gemis"
  /\ state.log[1].reden = "Doorgelaten"
  /\ state.log[1].actie = "Strafworp"
  /\ state.log[1].resultaat = "Raak"
  /\ state.log[1].team = "uit"
  /\ state.scoreUit = 1

\* C28: for every reachable state, sanitizeState of the serialized state has the
\* same scoreThuis and scoreUit, a log with the same events in the same order and
\* the same attacks; sanitizeState changes nothing of a reachable state, and
\* applying it twice gives what applying it once gives.
C28_RoundTrip ==
  LET json == JSONVan(state)
      terug == sanitizeState(JObj(json))
  IN /\ terug.scoreThuis = JNum(state.scoreThuis)
     /\ terug.scoreUit = JNum(state.scoreUit)
     /\ terug.log.t = "array"
     /\ Len(terug.log.v) = Len(state.log)
     /\ \A i \in 1..Len(state.log) : terug.log.v[i].id = state.log[i].id
     /\ terug.attacks = JArr(state.attacks)
     /\ terug = json
     /\ sanitizeState(JObj(terug)) = terug

\* a second half with a running attack, a score, a log and a possession owner
C28_Witness ==
  /\ state.currentHalf = 2
  /\ state.currentAttackId # NoId
  /\ state.scoreThuis = 1
  /\ Len(state.log) = 2
  /\ Len(state.attacks) >= 2
  /\ state.possessionOwner = "thuis"
  /\ state.klokLoopt
  /\ sanitizeState(JObj(JSONVan(state))).currentHalf = JNum(2)

\* a value of the type AppState gives the field
C29_GoedGetypeerd(veld, waarde) ==
  CASE veld \in {"spelers", "aanval", "verdediging", "log", "attacks"} -> waarde.t = "array"
    [] veld \in {"klokLoopt", "autoVakWisselNa2", "aanvalLinks", "matchEnded"} ->
         waarde.t = "boolean"
    [] veld = "possessionOwner" -> waarde \in {JStr("thuis"), JStr("uit"), JNull}
    [] veld = "currentHalf" -> waarde \in {JNum(1), JNum(2)}
    [] veld = "activeVak" -> waarde \in {JStr("aanvallend"), JStr("verdedigend")}
    [] veld = "currentAttackId" -> waarde.t \in {"string", "null"}
    [] OTHER -> waarde.t = "number"

C29_PerVeld ==
  /\ \A veld \in Velden, waarde \in Waarden :
       LET r == sanitizeState(JObj(Verstoor(state, veld, waarde)))
       IN /\ DOMAIN r = Velden
          /\ r[veld] = (IF C29_GoedGetypeerd(veld, waarde)
                          THEN waarde ELSE JSONVan(DEFAULT_STATE)[veld])
          /\ \A g \in Velden \ {veld} : r[g] = state[g]
  /\ \A veld \in Velden :
       LET r == sanitizeState(JObj(Zonder(state, veld)))
       IN /\ DOMAIN r = Velden
          /\ r[veld] = JSONVan(DEFAULT_STATE)[veld]
          /\ \A g \in Velden \ {veld} : r[g] = state[g]

C29_Terugval ==
  /\ decodeStateFromShare(Kapot) = JNull
  /\ BeginState(Kapot, Tekst(JObj(state))) = state
  /\ BeginState(Kapot, GeenTekst) = JSONVan(DEFAULT_STATE)
  /\ BeginState(Kapot, Kapot) = JSONVan(DEFAULT_STATE)

C30_KlokBeweegt ==
  \/ state'.tijdSeconden # state.tijdSeconden
  \/ state'.possessionThuisSeconden # state.possessionThuisSeconden
  \/ state'.possessionUitSeconden # state.possessionUitSeconden

\* the buttons that set the clock themselves
C30_KlokKnop == resetKlok \/ TweedeHelft \/ clearWedstrijd

C30_Step ==
  /\ (C30_KlokBeweegt /\ ~C30_KlokKnop) => state.klokLoopt
  /\ (~state.klokLoopt /\ ~state'.klokLoopt /\ ~C30_KlokKnop) => ~C30_KlokBeweegt

\* C30: no tick is applied to a state in which klokLoopt is false: after pause,
\* reset clock, end match, clear match and the stop at the end of a half,
\* tijdSeconden and both possession counters stay as they are until the clock is
\* started again; while the clock is stopped only the buttons that set the clock
\* (reset clock, second half, clear match) write them.
C30_NoOrphanedTick == [][C30_Step]_vars

\* paused in the second half while the home team holds the ball, after the clock
\* and the possession counter ran
C30_Witness ==
  /\ ~state.klokLoopt
  /\ state.currentHalf = 2
  /\ state.tijdSeconden = HalfTotal(state) + EarlyTicks
  /\ state.possessionOwner = "thuis"
  /\ state.possessionThuisSeconden > LaatBezit(MinHalfMinuten).possessionThuisSeconden + 1
  /\ ~state.matchEnded

\* C31: every logging transition is indivisible with respect to the tick: the
\* tijdSeconden, resterendSeconden and wedstrijdMinuut stored on a new event are
\* those of the state the event is prepended to (no logging transition moves
\* the clock, so these are the values after the step), and an event prepended
\* to a state without open attack carries no attackId.
C31_LogAtomair ==
  [][Len(state'.log) = Len(state.log) + 1 =>
       LET e == state'.log[1]
       IN /\ e.tijdSeconden = state'.tijdSeconden
          /\ e.resterendSeconden = Resterend(state')
          /\ e.wedstrijdMinuut = Minuut(state')
          /\ (state'.currentAttackId = NoId => e.attackId = NoId)]_vars

C33_Tap == vakActionPopup = NoPopup /\ vakActionPopup' # NoPopup

C33_Step ==
  C33_Tap =>
    /\ Len(state'.attacks) > Len(state.attacks) =>
         (state.activeVak # vakActionPopup' \/ state.currentAttackId = NoId)
    /\ (state.activeVak = vakActionPopup' /\ state.currentAttackId # NoId) =>
         /\ state'.attacks = state.attacks
         /\ state'.currentAttackId = state.currentAttackId
         /\ state'.activeVak = state.activeVak

\* C33: a tap on a zone opens a new attack only if that zone is not the active
\* zone or no attack is open; a tap on the active zone while an attack is open
\* leaves attacks, currentAttackId and activeVak as they are.
C33_TapOpensOnce == [][C33_Step]_vars

\* the active zone was tapped again after a miss was logged in its open attack
C33_Witness ==
  /\ vakActionPopup = state.activeVak
  /\ Len(state.log) = 1
  /\ state.log[1].attackId = state.currentAttackId
  /\ state.currentAttackId # NoId
  /\ Len(state.attacks) = 1

\* C34: currentAttackId is either null, and then every attack has an
\* endSeconden, or the id of an attack in `attacks` that has no endSeconden and
\* whose vak is activeVak.
C34_CurrentAttack ==
  IF state.currentAttackId = NoId
    THEN \A i \in 1..Len(state.attacks) : state.attacks[i].endSeconden # Absent
    ELSE \E i \in 1..Len(state.attacks) :
           /\ state.attacks[i].id = state.currentAttackId
           /\ state.attacks[i].endSeconden = Absent
           /\ state.attacks[i].vak = state.activeVak

\* the tick that ended the first half closed the second of two attacks
C34_Witness ==
  /\ state.currentAttackId = NoId
  /\ ~state.klokLoopt
  /\ ~state.matchEnded
  /\ Len(state.attacks) = 2
  /\ state.attacks[2].endSeconden = state.tijdSeconden
  /\ state.tijdSeconden = HalfTotal(state)

\* every event that carries an attackId points at an attack of the list with
\* the event's attackIndex
C35_Verwijzing ==
  \A k \in 1..Len(state.log) :
    state.log[k].attackId # NoId =>
      \E i \in 1..Len(state.attacks) :
        /\ state.attacks[i].id = state.log[k].attackId
        /\ state.attacks[i].index = state.log[k].attackIndex

\* the open attack of the state a handler logs in: the rendered state, or, for
\* an updater that runs behind the timer's, the state the timer left
C35_Open ==
  {state.currentAttackId} \cup
    (IF state.klokLoopt THEN {TickState(state).currentAttackId} ELSE {})

\* the new event carries the attack that was open when it was logged; when the
\* step opens an attack, the event carries the one that is closed, not the new one
C35_Step ==
  Len(state'.log) = Len(state.log) + 1 =>
    LET e == state'.log[1]
    IN /\ e.attackId \in C35_Open
       /\ (e.attackId # NoId /\ Len(state'.attacks) > Len(state.attacks)) =>
            /\ e.attackId # state'.currentAttackId
            /\ state'.attacks[FindAttack(state'.attacks, e.attackId)].endSeconden # Absent

\* C35: every log event that carries an attackId references an attack present
\* in `attacks` with the event's attackIndex, namely the attack that was open in
\* the state in which the event was logged; a goal or steal references the
\* attack it closes, never the attack it opens.
C35_EventAttack == []C35_Verwijzing /\ [][C35_Step]_vars

\* a goal was logged in attack 1 and opened attack 2
C35_Witness ==
  /\ Len(state.log) = 1
  /\ state.log[1].reden \in {"Gescoord", "Doorgelaten"}
  /\ state.log[1].attackId = 1
  /\ state.log[1].attackIndex = 1
  /\ state.currentAttackId = 2
  /\ state.attacks[1].endSeconden # Absent

\* C36: clear match returns the match-scoped state to its initial values:
\* scores, tijdSeconden, possession counters and goalsSinceLastSwitch 0,
\* klokLoopt false, currentHalf 1, possessionOwner and currentAttackId null, log
\* and attacks empty, activeVak aanvallend and matchEnded false, while roster,
\* line-ups, halfMinuten and the auto-swap setting stay as they are.
C36_ClearMatch ==
  [][clearWedstrijd =>
       /\ state'.scoreThuis = 0
       /\ state'.scoreUit = 0
       /\ state'.tijdSeconden = 0
       /\ state'.possessionThuisSeconden = 0
       /\ state'.possessionUitSeconden = 0
       /\ state'.goalsSinceLastSwitch = 0
       /\ state'.klokLoopt = FALSE
       /\ state'.currentHalf = 1
       /\ state'.possessionOwner = Geen
       /\ state'.currentAttackId = NoId
       /\ state'.log = <<>>
       /\ state'.attacks = <<>>
       /\ state'.activeVak = "aanvallend"
       /\ state'.matchEnded = FALSE
       /\ state'.spelers = state.spelers
       /\ state'.aanval = state.aanval
       /\ state'.verdediging = state.verdediging
       /\ state'.halfMinuten = state.halfMinuten
       /\ state'.autoVakWisselNa2 = state.autoVakWisselNa2]_vars

\* C37: after a steal in either direction possessionOwner is the team of the
\* attack the steal opened: thuis after a steal in the defending zone, uit after
\* a steal in the attacking zone.
C37_StealOwner ==
  [][(/\ Len(state'.log) = Len(state.log) + 1
      /\ state'.log[1].reden = "Schot afgevangen"
      /\ Len(state'.attacks) > Len(state.attacks)) =>
       /\ state'.possessionOwner = state'.attacks[Len(state'.attacks)].team
       /\ state'.possessionOwner =
            (IF state'.log[1].vak = "verdedigend" THEN "thuis" ELSE "uit")]_vars

\* C38: the resterendSeconden stored on a logged event is the remaining time of
\* the current half that the match clock shows when the event is logged, in the
\* first half and in the second half alike.
C38_Resterend ==
  [][Len(state'.log) = Len(state.log) + 1 =>
       state'.log[1].resterendSeconden = ResterendGetoond(state)]_vars

\* the end of an attack, or the clock while it is open
C39_Einde(a) == IF a.endSeconden # Absent THEN a.endSeconden ELSE state.tijdSeconden

\* C39: as long as the clock is not reset and the half length not lowered, the
\* attacks are non-overlapping intervals in creation order: of two consecutive
\* attacks the first is closed, at or before the start of the second; every
\* event that references an attack lies between its start and its end (the
\* clock while it is open); and the attack seconds of both teams together do
\* not exceed tijdSeconden.
C39_Intervals ==
  /\ \A i \in 1..(Len(state.attacks) - 1) :
       /\ state.attacks[i].endSeconden # Absent
       /\ state.attacks[i].endSeconden <= state.attacks[i + 1].startSeconden
  /\ \A i \in 1..Len(state.attacks) :
       state.attacks[i].startSeconden <= C39_Einde(state.attacks[i])
  /\ \A k \in 1..Len(state.log) :
       state.log[k].attackId # NoId =>
         LET a == state.attacks[FindAttack(state.attacks, state.log[k].attackId)]
         IN /\ a.startSeconden <= state.log[k].tijdSeconden
            /\ state.log[k].tijdSeconden <= C39_Einde(a)
  /\ computeAttackSecondsPerTeam(state).thuis + computeAttackSecondsPerTeam(state).uit
       <= state.tijdSeconden

\* two attacks of different teams with time on both, and an event in the first
C39_Witness ==
  /\ Len(state.attacks) = 2
  /\ computeAttackSecondsPerTeam(state).thuis > 0
  /\ computeAttackSecondsPerTeam(state).uit > 0
  /\ Len(state.log) = 1
  /\ state.log[1].attackId = 1
  /\ state.halfMinuten > MinHalfMinuten
====
